---------------------------- MODULE Spec2Model ----------------------------
(***************************************************************************)
(* A model of the document translation pipeline of BS-Uebersetzer.         *)
(*                                                                         *)
(* Texts are sequences of one-character strings.  Python's 0-based,        *)
(* half-open slices text[a:b] are kept as they are in the source and       *)
(* converted by Slice.  Each part of the pipeline has its own              *)
(* specification over the shared variables:                                *)
(*   SpecSplit  split_into_chunks / find_last_period   (llm_translate.py)  *)
(*   SpecZip    translate_docx (xml_translate.py) and translate_document   *)
(*              (llm_translate.py): the archive in, the archive out        *)
(*   SpecXml    process_xml                           (xml_translate.py)   *)
(*   SpecText   translate_text, both implementations                       *)
(*   SpecCtx    _create_translation_context      (pdf_translator.py)       *)
(*   SpecChunks chunk_and_translate / translate_chunks (llm_translate.py)  *)
(*   SpecPara   translate_paragraphs / split_text, one paragraph           *)
(*   SpecLongText split_into_chunks with the default arguments             *)
(*   SpecPrompt _create_prompt                       (base_translator.py)  *)
(*   SpecDoc    translate_document, the whole chunked pipeline             *)
(***************************************************************************)
EXTENDS Integers, Sequences, FiniteSets, TLC

VARIABLES
    \* split_into_chunks (src/llm_translate.py:32-48)
    text,           \* the argument text
    max_length,     \* the argument max_length
    overlap,        \* the argument overlap
    start,          \* the local start (0-based offset)
    chunks,         \* the local list chunks
    pc,             \* "loop" while the while-loop runs, "done" after return
    \* translate_docx (src/xml_translate.py:203-249) and translate_document
    \* (src/llm_translate.py:169-188)
    pkg_in,         \* the input archive: its members in archive order
    zpc,            \* the position in translate_docx / translate_document
    temp_dir,       \* "none", "exists" or "removed": the mkdtemp directory
    fs_files,       \* the files under temp_dir: archive path -> bytes
    fs_dirs,        \* the directories under temp_dir
    out_exists,     \* a file exists at the output path
    out_members,    \* the members of the file at the output path, in order
    zerr,           \* the exception that reaches the caller, or "none"
    \* process_xml (src/xml_translate.py:136-200), one paragraph at a time
    x_para0,        \* the text leaves of the paragraph as parsed
    x_para,         \* the text leaves of the paragraph as they are now
    x_li,           \* the position of the inner loop: the next leaf
    current_text,   \* the local list current_text
    current_format, \* the local current_format ("None" for None)
    current_elem,   \* the local current_elem: a leaf position, 0 for None
    previous_translation,   \* the local previous_translation
    x_calls,        \* the calls of translate_text made for the paragraph
    x_last_result,  \* what the latest call of translate_text returned
    xpc,            \* "next" at the head of the outer loop, "leaf" in the
                    \* inner loop, "para_done" at the end of the loop body,
                    \* "written" after the tree was written, "raised"
                    \* after translate_text raised
    \* translate_text (src/translator/base_translator.py:91-115 and
    \* src/xml_translate.py:32-124), one call after the other
    t_config,       \* the TranslationConfig passed to BaseTranslator
    t_call,         \* the latest call of translate_text and what it did
    \* PdfTranslator.translate and _create_translation_context
    \* (src/translator/pdf_translator.py:13-166)
    c_max_length,   \* the argument max_context_length
    c_context,      \* translation_config.context
    c_before,       \* translation_config.context before the latest update
    c_new,          \* the translated text of the latest span; NoSpan before
                    \* the first span and between two spans
    cpc,            \* "function" while _create_translation_context is
                    \* called on its own, "translate" in the loops of
                    \* translate, "raised" when translate has raised
    \* chunk_and_translate and translate_chunks (src/llm_translate.py:109-139)
    k_text,         \* the argument text
    k_max_length,   \* the argument max_length
    k_overlap,      \* the argument overlap
    k_chunks,       \* the list split_into_chunks returned
    k_translated,   \* the local list translated_chunks
    k_calls,        \* the calls of translate_chunk that returned so far
    k_log,          \* the records logged at level ERROR
    k_result,       \* what chunk_and_translate returned
    kpc,            \* "start", "chunks" in the loop of translate_chunks,
                    \* "returned" or "raised"
    \* translate_paragraphs (src/llm_translate.py:141-167), one paragraph
    \* at a time
    p_texts,        \* t.text of the w:t elements of the paragraph, as parsed
    p_translated,   \* what chunk_and_translate returned for the paragraph
    p_split,        \* the local split_texts
    p_written,      \* t.text of the w:t elements after the write-back
    p_log,          \* the records logged at level WARNING or ERROR while
                    \* the paragraph was handled
    ppc,            \* "start" at the head of the loop body, "split" after
                    \* chunk_and_translate, "written" after the write-back,
                    \* "failed" or "returned" after the return, "raised"
                    \* after chunk_and_translate raised
    \* BaseTranslator._create_prompt (src/translator/base_translator.py:29-89)
    g_entries,      \* the glossary entries the caller wrote: <<term, definition>>
    g_config,       \* the TranslationConfig: tone, domain and glossary
    g_prompt,       \* the clauses of the rendered prompt
    gpc,            \* "start", "rendered" or "raised"
    \* translate_document with translate_paragraphs, chunk_and_translate and
    \* translate_chunks (src/llm_translate.py:109-188), the whole document
    d_doc,          \* the paragraphs as parsed: the t.text of their w:t
    d_tree,         \* the paragraphs of the tree, with what was written back
    d_max_length,   \* the argument max_length
    d_overlap,      \* the argument overlap
    d_para,         \* the number of the paragraph the loop is at (from 1)
    d_chunks,       \* the chunks of that paragraph
    d_translated,   \* the local list translated_chunks
    d_calls,        \* the calls of translate_chunk made for the document
    d_returned,     \* what the functions returned, innermost first
    d_output,       \* TRUE when the output package was written
    dpc             \* "paragraph" at the head of the loop over paragraphs,
                    \* "chunks" in the loop of translate_chunks, "written",
                    \* "failed" or "raised" after translate_document

splitVars == <<text, max_length, overlap, start, chunks, pc>>
zipVars == <<pkg_in, zpc, temp_dir, fs_files, fs_dirs, out_exists, out_members,
             zerr>>
xmlVars == <<x_para0, x_para, x_li, current_text, current_format,
             current_elem, previous_translation, x_calls, x_last_result, xpc>>
textVars == <<t_config, t_call>>
ctxVars == <<c_max_length, c_context, c_before, c_new, cpc>>
chunkVars == <<k_text, k_max_length, k_overlap, k_chunks, k_translated,
               k_calls, k_log, k_result, kpc>>
paraVars == <<p_texts, p_translated, p_split, p_written, p_log, ppc>>
promptVars == <<g_entries, g_config, g_prompt, gpc>>
docVars == <<d_doc, d_tree, d_max_length, d_overlap, d_para, d_chunks,
             d_translated, d_calls, d_returned, d_output, dpc>>
vars == <<splitVars, zipVars, xmlVars, textVars, ctxVars, chunkVars, paraVars,
          promptVars, docVars>>

\* What each part of the pipeline leaves alone.
otherThanSplit ==
    <<zipVars, xmlVars, textVars, ctxVars, chunkVars, paraVars, promptVars,
      docVars>>
otherThanZip ==
    <<splitVars, xmlVars, textVars, ctxVars, chunkVars, paraVars, promptVars,
      docVars>>
otherThanXml ==
    <<splitVars, zipVars, textVars, ctxVars, chunkVars, paraVars, promptVars,
      docVars>>
otherThanText ==
    <<splitVars, zipVars, xmlVars, ctxVars, chunkVars, paraVars, promptVars,
      docVars>>
otherThanCtx ==
    <<splitVars, zipVars, xmlVars, textVars, chunkVars, paraVars, promptVars,
      docVars>>
otherThanChunk ==
    <<splitVars, zipVars, xmlVars, textVars, ctxVars, paraVars, promptVars,
      docVars>>
otherThanPara ==
    <<splitVars, zipVars, xmlVars, textVars, ctxVars, chunkVars, promptVars,
      docVars>>
otherThanPrompt ==
    <<splitVars, zipVars, xmlVars, textVars, ctxVars, chunkVars, paraVars,
      docVars>>
otherThanDoc ==
    <<splitVars, zipVars, xmlVars, textVars, ctxVars, chunkVars, paraVars,
      promptVars>>

---------------------------------------------------------------------------
(* The variables of a part that is not running *)

SplitIdle ==
    /\ text = <<>>
    /\ max_length = 0
    /\ overlap = 0
    /\ start = 0
    /\ chunks = <<>>
    /\ pc = "idle"

ZipIdle ==
    /\ pkg_in = <<>>
    /\ zpc = "idle"
    /\ temp_dir = "none"
    /\ fs_files = <<>>
    /\ fs_dirs = {}
    /\ out_exists = FALSE
    /\ out_members = <<>>
    /\ zerr = "none"

XmlIdle ==
    /\ x_para0 = <<>>
    /\ x_para = <<>>
    /\ x_li = 0
    /\ current_text = <<>>
    /\ current_format = "None"
    /\ current_elem = 0
    /\ previous_translation = <<>>
    /\ x_calls = <<>>
    /\ x_last_result = <<>>
    /\ xpc = "idle"

\* Python's None where a text is expected.
None == <<"None">>

\* No call of translate_text was made.
NoCall ==
    [impl |-> "none", unit |-> <<>>, result |-> <<>>, raised |-> FALSE,
     detected |-> FALSE, detect_arg |-> <<>>, submitted |-> FALSE,
     source_language |-> None, response |-> <<>>]

TextIdle ==
    /\ t_config = [source_language |-> None, glossary |-> "None"]
    /\ t_call = NoCall

\* No span is being handled.
NoSpan == <<"no span">>

CtxIdle ==
    /\ c_max_length = 0
    /\ c_context = <<>>
    /\ c_before = <<>>
    /\ c_new = NoSpan
    /\ cpc = "idle"

ChunkIdle ==
    /\ k_text = <<>>
    /\ k_max_length = 0
    /\ k_overlap = 0
    /\ k_chunks = <<>>
    /\ k_translated = <<>>
    /\ k_calls = <<>>
    /\ k_log = <<>>
    /\ k_result = None
    /\ kpc = "idle"

ParaIdle ==
    /\ p_texts = <<>>
    /\ p_translated = None
    /\ p_split = <<>>
    /\ p_written = <<>>
    /\ p_log = <<>>
    /\ ppc = "idle"

NoPrompt == [tone |-> <<>>, domain |-> <<>>, glossary |-> <<>>]

PromptIdle ==
    /\ g_entries = <<>>
    /\ g_config = [tone |-> None, domain |-> None, glossary |-> None]
    /\ g_prompt = NoPrompt
    /\ gpc = "idle"

\* No function of the chunked pipeline has returned yet.
NothingReturned ==
    [translate_chunks |-> "nothing", chunk_and_translate |-> "nothing",
     translate_paragraphs |-> "nothing"]

DocIdle ==
    /\ d_doc = <<>>
    /\ d_tree = <<>>
    /\ d_max_length = 0
    /\ d_overlap = 0
    /\ d_para = 0
    /\ d_chunks = <<>>
    /\ d_translated = <<>>
    /\ d_calls = <<>>
    /\ d_returned = NothingReturned
    /\ d_output = FALSE
    /\ dpc = "idle"

---------------------------------------------------------------------------
(* Bounds of the model *)

MaxTextLen == 5
MaxMaxLength == 4
MaxOverlap == 3

\* The loop of split_into_chunks is cut after this many appends: more than
\* any terminating run over a text of MaxTextLen characters can make.
MaxChunks == MaxTextLen + 2

\* The number of members of an input archive.
MaxMembers == 3

\* The number of text leaves of a paragraph.
MaxLeaves == 3

\* The length of a text passed to translate_text.
MaxUnitLen == 3

\* The greatest max_context_length, and the length of a translated span.
MaxContextLength == 3
MaxSpanLen == 4

---------------------------------------------------------------------------
(* Strings *)

Min(a, b) == IF a <= b THEN a ELSE b
Max(a, b) == IF a >= b THEN a ELSE b

\* All sequences over S of length at most n.
StringsUpTo(S, n) == UNION {[1..k -> S] : k \in 0..n}

\* A slice index as Python normalises it: a negative index counts from the
\* end, and the result is clamped to 0..len(s).
SliceIndex(s, i) == IF i < 0 THEN Max(i + Len(s), 0) ELSE Min(i, Len(s))

\* Python's s[a:b].
Slice(s, a, b) == SubSeq(s, SliceIndex(s, a) + 1, SliceIndex(s, b))

\* Python's s[a:].
SliceFrom(s, a) == Slice(s, a, Len(s))

\* "".join(list)
RECURSIVE Concat(_)
Concat(list) == IF list = <<>> THEN <<>> ELSE Head(list) \o Concat(Tail(list))

SplitChars == {"a", "."}

\* str.find(sub): the 0-based position of the first occurrence, or -1.
Find(s, sub) ==
    LET hits == {i \in 0..(Len(s) - Len(sub)) :
                    SubSeq(s, i + 1, i + Len(sub)) = sub}
    IN  IF hits = {} THEN -1 ELSE CHOOSE i \in hits : \A j \in hits : i <= j

\* str.startswith(prefix), str.endswith(suffix)
StartsWith(s, prefix) ==
    Len(prefix) <= Len(s) /\ SubSeq(s, 1, Len(prefix)) = prefix
EndsWith(s, suffix) ==
    Len(suffix) <= Len(s)
        /\ SubSeq(s, Len(s) - Len(suffix) + 1, Len(s)) = suffix

\* The characters str.strip() removes, those str.isspace() is true for:
\* U+0009..U+000D, U+001C..U+0020, U+0085, U+00A0, U+1680, and U+2000..
\* U+200A, U+2028, U+2029, U+202F, U+205F, U+3000, which a string of this
\* language cannot hold and which are written by their code points.
Whitespace ==
    {" ", "\t", "\n", "\f", "\r", "", "", "", "", "", "", " ", " ",
     "U+2000", "U+2001", "U+2002", "U+2003", "U+2004", "U+2005",
     "U+2006", "U+2007", "U+2008", "U+2009", "U+200A", "U+2028",
     "U+2029", "U+202F", "U+205F", "U+3000"}

\* str.strip()
RECURSIVE LStrip(_)
LStrip(s) ==
    IF s # <<>> /\ Head(s) \in Whitespace THEN LStrip(Tail(s)) ELSE s
RECURSIVE RStrip(_)
RStrip(s) ==
    IF s # <<>> /\ s[Len(s)] \in Whitespace
    THEN RStrip(SubSeq(s, 1, Len(s) - 1)) ELSE s
Strip(s) == RStrip(LStrip(s))

\* str.replace("\u00df", "ss")
RECURSIVE ReplaceEszett(_)
ReplaceEszett(s) ==
    IF s = <<>> THEN <<>>
    ELSE (IF Head(s) = "ß" THEN <<"s", "s">> ELSE <<Head(s)>>)
             \o ReplaceEszett(Tail(s))

---------------------------------------------------------------------------
(* src/llm_translate.py: find_last_period *)

\* The greatest i in lo..hi with t[i] = '.' (0-based), or -1: the downward
\* for-loop of find_last_period returns at the first period it meets.
LastPeriodIn(t, lo, hi) ==
    LET hits == {i \in lo..hi : t[i + 1] = "."}
    IN  IF hits = {} THEN -1 ELSE CHOOSE i \in hits : \A j \in hits : j <= i

\* Mutant of find_last_period: the loop runs upward and returns behind the
\* first period of the window.
FindFirstPeriod(t, st, end, ov) ==
    LET overlap_start == Max(st, end - ov)
        overlap_end   == Min(end + ov, Len(t))
        hits          == {i \in overlap_start..(overlap_end - 1) : t[i + 1] = "."}
    IN  IF hits # {} THEN (CHOOSE i \in hits : \A j \in hits : i <= j) + 1
        ELSE overlap_end

\* Mutant of find_last_period: the period is looked for before `end` only,
\* and the cut is at `end` when there is none.
FindLastPeriodBeforeEnd(t, st, end, ov) ==
    LET overlap_start == Max(st, end - ov)
        i             == LastPeriodIn(t, overlap_start, end - 1)
    IN  IF i # -1 THEN i + 1 ELSE end

\* Mutant of find_last_period: the window begins at the start of the chunk.
FindLastPeriodFromStart(t, st, end, ov) ==
    LET overlap_end == Min(end + ov, Len(t))
        i           == LastPeriodIn(t, st, overlap_end - 1)
    IN  IF i # -1 THEN i + 1 ELSE overlap_end

find_last_period(t, st, end, ov) ==
    LET overlap_start == Max(st, end - ov)
        overlap_end   == Min(end + ov, Len(t))
        i             == LastPeriodIn(t, overlap_start, overlap_end - 1)
    IN  IF i # -1 THEN i + 1 ELSE overlap_end

---------------------------------------------------------------------------
(* src/llm_translate.py: split_into_chunks, one loop iteration per step *)

\* Mutant of SplitCut: the next chunk restarts `overlap` characters before
\* the cut, so that neighbouring chunks share the overlap region.
SplitCutOverlapping(t, st, last_period, ov) ==
    [chunk |-> Slice(t, st, last_period),
     start |-> Max(st + 1, last_period - ov)]

\* The else-branch, lines 44-46: the chunk and the next start.
SplitCut(t, st, last_period, ov) ==
    [chunk |-> Slice(t, st, last_period),
     start |-> last_period]

\* The if-branch, lines 41-42: the last chunk runs to the end of the text.
SplitLast(t, st) ==
    [chunk |-> SliceFrom(t, st),
     start |-> Len(t) + 1]

SplitStart ==
    /\ text \in StringsUpTo(SplitChars, MaxTextLen)
    /\ max_length \in 0..MaxMaxLength
    /\ overlap \in 0..MaxOverlap
    /\ start = 0
    /\ chunks = <<>>
    /\ pc = "loop"

SplitInit ==
    /\ SplitStart
    /\ ZipIdle
    /\ XmlIdle
    /\ TextIdle
    /\ CtxIdle
    /\ ChunkIdle
    /\ ParaIdle
    /\ PromptIdle
    /\ DocIdle

\* while start < len(text), end >= len(text)
SplitFinalChunk ==
    /\ pc = "loop"
    /\ start < Len(text)
    /\ Len(chunks) < MaxChunks
    /\ start + max_length >= Len(text)
    /\ LET r == SplitLast(text, start)
       IN  /\ chunks' = Append(chunks, r.chunk)
           /\ start' = r.start
    /\ UNCHANGED <<text, max_length, overlap, pc>>
    /\ UNCHANGED otherThanSplit

\* while start < len(text), end < len(text)
SplitNextChunk ==
    /\ pc = "loop"
    /\ start < Len(text)
    /\ Len(chunks) < MaxChunks
    /\ start + max_length < Len(text)
    /\ LET end == start + max_length
           r   == SplitCut(text, start,
                           find_last_period(text, start, end, overlap), overlap)
       IN  /\ chunks' = Append(chunks, r.chunk)
           /\ start' = r.start
    /\ UNCHANGED <<text, max_length, overlap, pc>>
    /\ UNCHANGED otherThanSplit

\* the loop condition fails: return chunks
SplitReturn ==
    /\ pc = "loop"
    /\ ~(start < Len(text))
    /\ pc' = "done"
    /\ UNCHANGED <<text, max_length, overlap, start, chunks>>
    /\ UNCHANGED otherThanSplit

SplitNext == SplitFinalChunk \/ SplitNextChunk \/ SplitReturn

SpecSplit == SplitInit /\ [][SplitNext]_vars

---------------------------------------------------------------------------
(* Claims about split_into_chunks *)

\* C1: for max_length >= 1 and overlap >= 0 the chunks emitted so far are
\* contiguous slices of the text: concatenated in order they are exactly the
\* part of the text before the offset, and the whole text on return.
C1_ConcatReproducesText ==
    max_length >= 1 =>
        /\ Concat(chunks) = Slice(text, 0, start)
        /\ pc = "done" => Concat(chunks) = text

\* C1 witness: a text was split into three chunks or more and returned.
C1_Witness ==
    /\ pc = "done"
    /\ max_length >= 1
    /\ Len(chunks) >= 3

\* C2 (as claimed): a text of 0 to max_length - 1 characters is returned as
\* exactly one chunk equal to the text.
C2_ShortTextIsOneChunk ==
    (pc = "done" /\ Len(text) < max_length) => chunks = <<text>>

\* C3 (as claimed): for max_length >= 0 and overlap >= 0 every iteration
\* moves the offset strictly forward and emits a non-empty chunk.
C3_EveryStepAdvances ==
    [][(SplitFinalChunk \/ SplitNextChunk) =>
           /\ start' > start
           /\ chunks'[Len(chunks')] # <<>>]_vars

---------------------------------------------------------------------------
(* Archives: what zipfile and the file system do with the members *)

\* The member paths of the modelled archives: the content-types part at
\* the root, the body part, a header part and a part that is not
\* translated under word/, and an explicit directory entry.
ZipPaths == {"[Content_Types].xml", "word/document.xml", "word/header1.xml",
             "word/styles.xml", "customXml/"}

\* ZipInfo.is_dir(): the member name ends with "/".
IsDirEntry(p) == p = "customXml/"

\* The directory of temp_dir that holds the member ("" is temp_dir itself).
ParentDir(p) ==
    CASE p = "[Content_Types].xml" -> ""
      [] p = "customXml/" -> "customXml"
      [] OTHER -> "word"

\* name.startswith(("header", "footer")) and name.endswith(".xml")
IsHeaderOrFooter(p) == p = "word/header1.xml"

ZipBytes == {"b0", "b1"}
ZipMethods == {"stored", "deflated"}

\* The bytes of a member: raw is what the input archive held, tr says that
\* the part was rewritten by the translation.
Original(b) == [raw |-> b, tr |-> FALSE]
Translated(d) == [raw |-> d.raw, tr |-> TRUE]
NoBytes == [raw |-> "", tr |-> FALSE]

Member(p, d, m) == [path |-> p, data |-> d, method |-> m]

PathsOf(members) == [i \in 1..Len(members) |-> members[i].path]
PathSetOf(members) == {members[i].path : i \in 1..Len(members)}
Injective(s) == \A i, j \in 1..Len(s) : s[i] = s[j] => i = j

\* The archives the model reads: up to MaxMembers members with distinct
\* names in any order; a directory entry is stored and empty.
Packages ==
    {m \in UNION {[1..k -> [path : ZipPaths, data : {Original(b) : b \in ZipBytes} \cup {NoBytes},
                            method : ZipMethods]] : k \in 1..MaxMembers} :
        /\ Injective(PathsOf(m))
        /\ \A i \in 1..Len(m) :
              IF IsDirEntry(m[i].path)
              THEN m[i].data = NoBytes /\ m[i].method = "stored"
              ELSE m[i].data # NoBytes}

\* The member of the archive with the given name (ZipFile.read(name)).
MemberAt(members, p) ==
    members[CHOOSE i \in 1..Len(members) : members[i].path = p]

\* ZipFile.extractall: every file member is written under temp_dir.
ExtractedFiles(members) ==
    [p \in {q \in PathSetOf(members) : ~IsDirEntry(q)} |->
        MemberAt(members, p).data]

\* ZipFile.extractall: the directories made, those of the directory entries
\* and the parents of the files.
ExtractedDirs(members) == {ParentDir(p) : p \in PathSetOf(members)} \ {""}

\* The orders in which os.walk can list the files: the files of temp_dir
\* itself come first, then each subdirectory with its files together; the
\* order of the directories and of the files in one directory is the file
\* system's.
WalkOrders(files) ==
    {s \in [1..Cardinality(files) -> files] :
        /\ Injective(s)
        /\ \A i, j \in 1..Len(s) :
              (ParentDir(s[i]) = "" /\ ParentDir(s[j]) # "") => i < j
        /\ \A i, j, k \in 1..Len(s) :
              (i < j /\ j < k /\ ParentDir(s[i]) = ParentDir(s[k]))
                  => ParentDir(s[j]) = ParentDir(s[i])}

---------------------------------------------------------------------------
(* src/xml_translate.py: translate_docx *)

\* xml_files, lines 223-231, kept to those that exist (line 236).
DocxPartsToProcess(files) ==
    {p \in DOMAIN files : p = "word/document.xml" \/ IsHeaderOrFooter(p)}

\* Lines 234-237: process_xml rewrites each listed part in place.
DocxProcessed(files) ==
    [p \in DOMAIN files |->
        IF p \in DocxPartsToProcess(files) THEN Translated(files[p])
        ELSE files[p]]

\* Lines 240-246: every file os.walk lists is written, deflated.
DocxRezipped(files, order) ==
    [i \in 1..Len(order) |-> Member(order[i], files[order[i]], "deflated")]

ZipStart ==
    /\ pkg_in \in Packages
    /\ zpc = "start"
    /\ temp_dir = "none"
    /\ fs_files = <<>>
    /\ fs_dirs = {}
    /\ out_exists = FALSE
    /\ out_members = <<>>
    /\ zerr = "none"

\* line 215: temp_dir = tempfile.mkdtemp()
DocxMkdtemp ==
    /\ zpc = "start"
    /\ temp_dir' = "exists"
    /\ zpc' = "docx_extract"
    /\ UNCHANGED <<pkg_in, fs_files, fs_dirs, out_exists, out_members, zerr>>
    /\ UNCHANGED otherThanZip

\* lines 219-220: the archive is extracted into temp_dir
DocxExtract ==
    /\ zpc = "docx_extract"
    /\ fs_files' = ExtractedFiles(pkg_in)
    /\ fs_dirs' = ExtractedDirs(pkg_in)
    /\ zpc' = "docx_process"
    /\ UNCHANGED <<pkg_in, temp_dir, out_exists, out_members, zerr>>
    /\ UNCHANGED otherThanZip

\* lines 219-220 raise (the archive cannot be read, a member is damaged,
\* the disk is full) after some of the members were extracted: the members
\* before the failing one are extracted. ZipFile._extract_member makes the
\* directory of the failing member, opens the member in the archive, opens
\* its file for writing and copies the bytes, and can raise at each step:
\* nothing of the member is there; or its directory alone (the local header
\* of the member is damaged); or its file as well, empty or with the first
\* part of its bytes (a damaged member fails its CRC check at the end of
\* the read, after the buffers read before were written)
DocxExtractFails ==
    /\ zpc = "docx_extract"
    /\ \E n \in 0..(Len(pkg_in) - 1),
          written \in {"nothing", "directory", "empty", "part"} :
          LET before  == SubSeq(pkg_in, 1, n)
              failing == pkg_in[n + 1]
              part    == [raw |-> "part of " \o failing.data.raw, tr |-> FALSE]
          IN  /\ written # "nothing" => ~IsDirEntry(failing.path)
              /\ written = "part" => failing.data.raw # ""
              /\ fs_files' =
                     IF written \in {"nothing", "directory"}
                     THEN ExtractedFiles(before)
                     ELSE [p \in DOMAIN ExtractedFiles(before) \cup {failing.path} |->
                              IF p # failing.path THEN ExtractedFiles(before)[p]
                              ELSE IF written = "part" THEN part
                              ELSE NoBytes]
              /\ fs_dirs' =
                     IF written = "nothing" THEN ExtractedDirs(before)
                     ELSE ExtractedDirs(SubSeq(pkg_in, 1, n + 1))
    /\ zerr' = "extract"
    /\ zpc' = "docx_finally"
    /\ UNCHANGED <<pkg_in, temp_dir, out_exists, out_members>>
    /\ UNCHANGED otherThanZip

\* line 228: os.listdir raises when the archive has no word/ directory
DocxListFails ==
    /\ zpc = "docx_process"
    /\ "word" \notin fs_dirs
    /\ zerr' = "listdir"
    /\ zpc' = "docx_finally"
    /\ UNCHANGED <<pkg_in, temp_dir, fs_files, fs_dirs, out_exists, out_members>>
    /\ UNCHANGED otherThanZip

\* lines 223-237: the parts are listed and each one that exists is processed
DocxProcessParts ==
    /\ zpc = "docx_process"
    /\ "word" \in fs_dirs
    /\ fs_files' = DocxProcessed(fs_files)
    /\ zpc' = "docx_rezip"
    /\ UNCHANGED <<pkg_in, temp_dir, fs_dirs, out_exists, out_members, zerr>>
    /\ UNCHANGED otherThanZip

\* line 237: process_xml raises for one of the parts (the capability or the
\* parser fails); the parts before it were rewritten
DocxProcessFails ==
    /\ zpc = "docx_process"
    /\ "word" \in fs_dirs
    /\ \E failing \in DocxPartsToProcess(fs_files) :
          \E done \in SUBSET (DocxPartsToProcess(fs_files) \ {failing}) :
              \* word/document.xml is the first of xml_files
              /\ failing = "word/document.xml" => done = {}
              /\ ("word/document.xml" \in DOMAIN fs_files
                      /\ failing # "word/document.xml")
                    => "word/document.xml" \in done
              /\ fs_files' = [p \in DOMAIN fs_files |->
                                 IF p \in done THEN Translated(fs_files[p])
                                 ELSE fs_files[p]]
    /\ zerr' = "process"
    /\ zpc' = "docx_finally"
    /\ UNCHANGED <<pkg_in, temp_dir, fs_dirs, out_exists, out_members>>
    /\ UNCHANGED otherThanZip

\* lines 240-246: the output archive is written at the output path
DocxRezip ==
    /\ zpc = "docx_rezip"
    /\ \E order \in WalkOrders(DOMAIN fs_files) :
          out_members' = DocxRezipped(fs_files, order)
    /\ out_exists' = TRUE
    /\ zpc' = "docx_finally"
    /\ UNCHANGED <<pkg_in, temp_dir, fs_files, fs_dirs, zerr>>
    /\ UNCHANGED otherThanZip

\* lines 240-246 raise: either ZipFile(output_docx_path, "w") of line 240
\* cannot create the file (the directory of the path is missing) and
\* nothing is at the output path, or a member cannot be written and the
\* archive opened at the output path holds the members written before
DocxRezipFails ==
    /\ zpc = "docx_rezip"
    /\ \/ /\ out_exists' = FALSE
          /\ out_members' = <<>>
       \/ /\ \E order \in WalkOrders(DOMAIN fs_files) :
                \E n \in 0..(Len(order) - 1) :
                    out_members' = SubSeq(DocxRezipped(fs_files, order), 1, n)
          /\ out_exists' = TRUE
    /\ zerr' = "rezip"
    /\ zpc' = "docx_finally"
    /\ UNCHANGED <<pkg_in, temp_dir, fs_files, fs_dirs>>
    /\ UNCHANGED otherThanZip

\* Mutant of DocxFinally: the directory is removed at the end of the try
\* block only, so that an exception leaves it behind.
DocxCleanupOnSuccessOnly ==
    /\ zpc = "docx_finally"
    /\ temp_dir' = IF zerr = "none" THEN "removed" ELSE temp_dir
    /\ fs_files' = IF zerr = "none" THEN <<>> ELSE fs_files
    /\ fs_dirs' = IF zerr = "none" THEN {} ELSE fs_dirs
    /\ zpc' = IF zerr = "none" THEN "done" ELSE "raised"
    /\ UNCHANGED <<pkg_in, out_exists, out_members, zerr>>
    /\ UNCHANGED otherThanZip

\* lines 247-249: finally, shutil.rmtree(temp_dir)
DocxFinally ==
    /\ zpc = "docx_finally"
    /\ temp_dir' = "removed"
    /\ fs_files' = <<>>
    /\ fs_dirs' = {}
    /\ zpc' = IF zerr = "none" THEN "done" ELSE "raised"
    /\ UNCHANGED <<pkg_in, out_exists, out_members, zerr>>
    /\ UNCHANGED otherThanZip

---------------------------------------------------------------------------
(* src/llm_translate.py: translate_document *)

\* Lines 182-188: the members are written in the order of infolist(); a
\* member other than word/document.xml is written with its own ZipInfo, the
\* body part under the default compression of ZipFile(path, 'w').
DocumentWritten(members) ==
    [i \in 1..Len(members) |->
        IF members[i].path # "word/document.xml" THEN members[i]
        ELSE Member("word/document.xml", Translated(members[i].data), "stored")]

\* line 171: extract_document_xml reads the body part of the archive
DocumentExtractXml ==
    /\ zpc = "start"
    /\ "word/document.xml" \in PathSetOf(pkg_in)
    /\ zpc' = "doc_translate"
    /\ UNCHANGED <<pkg_in, temp_dir, fs_files, fs_dirs, out_exists, out_members,
                   zerr>>
    /\ UNCHANGED otherThanZip

\* line 171: extract_document_xml raises, the archive has no body part
DocumentExtractXmlFails ==
    /\ zpc = "start"
    /\ "word/document.xml" \notin PathSetOf(pkg_in)
    /\ zerr' = "extract"
    /\ zpc' = "raised"
    /\ UNCHANGED <<pkg_in, temp_dir, fs_files, fs_dirs, out_exists, out_members>>
    /\ UNCHANGED otherThanZip

\* lines 174-178: translate_paragraphs returned None, nothing is written
DocumentTranslationFailed ==
    /\ zpc = "doc_translate"
    /\ zpc' = "done"
    /\ UNCHANGED <<pkg_in, temp_dir, fs_files, fs_dirs, out_exists, out_members,
                   zerr>>
    /\ UNCHANGED otherThanZip

\* line 174: translate_paragraphs raises (IndexError of find_context_start,
\* an exception of translate_chunk that is no OpenAIError, a parse error);
\* translate_document catches nothing and nothing is written
DocumentTranslationRaises ==
    /\ zpc = "doc_translate"
    /\ zerr' = "translate"
    /\ zpc' = "raised"
    /\ UNCHANGED <<pkg_in, temp_dir, fs_files, fs_dirs, out_exists, out_members>>
    /\ UNCHANGED otherThanZip

\* lines 174-188: translate_paragraphs returned the translated markup and
\* the output archive is written
DocumentWrite ==
    /\ zpc = "doc_translate"
    /\ out_members' = DocumentWritten(pkg_in)
    /\ out_exists' = TRUE
    /\ zpc' = "done"
    /\ UNCHANGED <<pkg_in, temp_dir, fs_files, fs_dirs, zerr>>
    /\ UNCHANGED otherThanZip

\* lines 181-188 raise: either ZipFile(docx_output_path, 'w') of line 181
\* cannot create the file and nothing is at the output path, or a member
\* cannot be written and the archive holds the members written before
DocumentWriteFails ==
    /\ zpc = "doc_translate"
    /\ \/ /\ out_exists' = FALSE
          /\ out_members' = <<>>
       \/ /\ \E n \in 0..(Len(pkg_in) - 1) :
                out_members' = SubSeq(DocumentWritten(pkg_in), 1, n)
          /\ out_exists' = TRUE
    /\ zerr' = "write"
    /\ zpc' = "raised"
    /\ UNCHANGED <<pkg_in, temp_dir, fs_files, fs_dirs>>
    /\ UNCHANGED otherThanZip

ZipInit ==
    /\ ZipStart
    /\ SplitIdle
    /\ XmlIdle
    /\ TextIdle
    /\ CtxIdle
    /\ ChunkIdle
    /\ ParaIdle
    /\ PromptIdle
    /\ DocIdle

ZipNext ==
    \/ DocxMkdtemp
    \/ DocxExtract
    \/ DocxExtractFails
    \/ DocxListFails
    \/ DocxProcessParts
    \/ DocxProcessFails
    \/ DocxRezip
    \/ DocxRezipFails
    \/ DocxFinally
    \/ DocumentExtractXml
    \/ DocumentExtractXmlFails
    \/ DocumentTranslationFailed
    \/ DocumentTranslationRaises
    \/ DocumentWrite
    \/ DocumentWriteFails

SpecZip == ZipInit /\ [][ZipNext]_vars

---------------------------------------------------------------------------
(* Claims about the archive written *)

\* The output archive of a run that returned without an exception.
OutputWritten == zpc = "done" /\ out_exists

\* The parts a run translates: the body part, and in translate_docx also
\* the header and footer parts.
IsTranslatedPart(p) == p = "word/document.xml" \/ IsHeaderOrFooter(p)

\* C4 (as claimed): the output archive holds exactly the member paths of
\* the input archive, and every member other than the translated parts has
\* the bytes of the input member of the same path.
C4_SameMembersSameBytes ==
    OutputWritten =>
        /\ PathSetOf(out_members) = PathSetOf(pkg_in)
        /\ \A i \in 1..Len(out_members) :
              LET p == out_members[i].path
              IN  (p \in PathSetOf(pkg_in) /\ ~IsTranslatedPart(p))
                      => out_members[i].data = MemberAt(pkg_in, p).data

\* C5 (as claimed): the members are written in the order of the input
\* archive, and every unchanged member keeps its compression method.
C5_OrderAndCompressionKept ==
    OutputWritten =>
        /\ \A i, j \in 1..Len(out_members) :
              \A k, l \in 1..Len(pkg_in) :
                  (/\ out_members[i].path = pkg_in[k].path
                   /\ out_members[j].path = pkg_in[l].path
                   /\ k < l) => i < j
        /\ \A i \in 1..Len(out_members) :
              LET p == out_members[i].path
              IN  (p \in PathSetOf(pkg_in) /\ ~IsTranslatedPart(p))
                      => out_members[i].method = MemberAt(pkg_in, p).method

---------------------------------------------------------------------------
(* src/xml_translate.py: translate_text *)

\* The wrapper markers "<translated_text>" and "</translated_text>", one
\* character per element.
XmlOpenTag ==
    <<"<", "t", "r", "a", "n", "s", "l", "a", "t", "e", "d", "_", "t",
      "e", "x", "t", ">">>
XmlCloseTag ==
    <<"<", "/", "t", "r", "a", "n", "s", "l", "a", "t", "e", "d", "_",
      "t", "e", "x", "t", ">">>

\* Mutant of IsTrivialUnit: only empty and all-whitespace texts are
\* returned as they are.
IsTrivialUnitOnlyBlank(t) == Strip(t) = <<>>

\* Line 55 (and base_translator.py:93): not text.strip() or
\* len(text.strip()) == 1
IsTrivialUnit(t) == Strip(t) = <<>> \/ Len(Strip(t)) = 1

\* Lines 116-123: the completion is stripped, the sharp s replaced, the text
\* between the markers cut out and a trailing carriage return put back.
XmlPostProcess(response, endswith_r) ==
    LET translated  == ReplaceEszett(Strip(response))
        start_index == Find(translated, XmlOpenTag) + Len(XmlOpenTag)
        end_index   == Find(translated, XmlCloseTag)
    IN  Slice(translated, start_index, end_index)
            \o (IF endswith_r THEN <<"\r">> ELSE <<>>)

\* translate_text(text, ...) when the capability answers `response`.
xml_translate_text(t, response) ==
    IF IsTrivialUnit(t) THEN t
    ELSE XmlPostProcess(response, EndsWith(t, <<"\r">>))

---------------------------------------------------------------------------
(* src/xml_translate.py: process_xml *)

\* The format key get_run_properties returns: "None" when the run has no
\* w:rPr, otherwise the serialised w:rPr.
XmlFormats == {"None", "b"}

\* elem.text of the leaves of the modelled paragraphs.
XmlLeafTexts == {<<" ">>, <<"a">>, <<"b", "c">>}

\* A w:t element: its text, the format key of its run, whether it lies in
\* a paragraph nested in the paragraph (the w:p of a text box, which
\* findall(".//w:p") lists after the paragraph around it), and how often
\* its text was submitted to the capability.
Leaf(t, f) == [text |-> t, fmt |-> f, inner |-> FALSE, sent |-> 0]

\* What paragraph.findall(".//w:t") lists for a paragraph: its own leaves
\* and, in their place, those of at most one nested paragraph.
Paragraphs ==
    {p \in UNION {[1..k -> [text : XmlLeafTexts, fmt : XmlFormats,
                            inner : BOOLEAN, sent : {0}]] : k \in 0..MaxLeaves} :
        \A i, j, m \in 1..Len(p) :
            (i < j /\ j < m /\ p[i].inner /\ p[m].inner) => p[j].inner}

\* The leaves of the nested paragraph, as the outer pass left them.
IsInnerLeaf(l) == l.inner
NestedParagraph(para) ==
    LET leaves == SelectSeq(para, IsInnerLeaf)
    IN  [i \in 1..Len(leaves) |-> [leaves[i] EXCEPT !.inner = FALSE]]

\* A completion without the opening marker that is longer than the marker:
\* "Guten Tag, liebe Welt."
\* What the capability answers: a wrapped translation, and two without the
\* opening marker (the prompt ends with it), one shorter than the marker
\* and one longer.
XmlResponses ==
    LET LongBareText ==
            <<"G", "u", "t", "e", "n", " ", "T", "a", "g", ",", " ", "l", "i",
              "e", "b", "e", " ", "W", "e", "l", "t", ".">>
    IN  {XmlOpenTag \o <<"X", "y">> \o XmlCloseTag,
         <<"Z", "w", "v", ".">> \o XmlCloseTag,
         LongBareText \o XmlCloseTag}

\* line 159: not elem.text or not elem.text.strip()
IsBlankLeaf(l) == l.text = <<>> \/ Strip(l.text) = <<>>

\* Lines 170 and 188: current_text and current_elem is not None
HasPendingUnit == current_text # <<>> /\ current_elem # 0

\* One call of translate_text as process_xml makes it.
XmlCall(anchor, combined, response) ==
    [anchor    |-> anchor,
     text      |-> combined,
     context   |-> previous_translation,
     preceding |-> x_last_result,
     submitted |-> ~IsTrivialUnit(combined),
     result    |-> xml_translate_text(combined, response)]

\* Lines 172 and 190: current_elem.text = translate_text(...); the leaf
\* was submitted once more unless translate_text returned it as it is.
Written(para, anchor, call) ==
    [para EXCEPT ![anchor].text = call.result,
                 ![anchor].sent = @ + (IF call.submitted THEN 1 ELSE 0)]

XmlStart ==
    /\ x_para0 = <<>>
    /\ x_para = <<>>
    /\ x_li = 0
    /\ current_text = <<>>
    /\ current_format = "None"
    /\ current_elem = 0
    /\ previous_translation = <<>>
    /\ x_calls = <<>>
    /\ x_last_result = <<>>
    /\ xpc = "next"

\* line 152: the outer loop enters the next paragraph, lines 153-155
XmlNextParagraph ==
    /\ xpc = "next"
    /\ \E p \in Paragraphs :
          /\ x_para0' = p
          /\ x_para' = p
    /\ x_li' = 1
    /\ current_text' = <<>>
    /\ current_format' = "None"
    /\ current_elem' = 0
    /\ x_calls' = <<>>
    /\ xpc' = "leaf"
    /\ UNCHANGED <<previous_translation, x_last_result>>
    /\ UNCHANGED otherThanXml

\* lines 159-160: an empty or all-whitespace leaf is passed over
XmlSkipLeaf ==
    /\ xpc = "leaf"
    /\ x_li <= Len(x_para)
    /\ IsBlankLeaf(x_para[x_li])
    /\ x_li' = x_li + 1
    /\ UNCHANGED <<x_para0, x_para, current_text, current_format,
                   current_elem, previous_translation, x_calls, x_last_result,
                   xpc>>
    /\ UNCHANGED otherThanXml

\* lines 165-167: the leaf has the format of the leaves before it
XmlMergeLeaf ==
    /\ xpc = "leaf"
    /\ x_li <= Len(x_para)
    /\ ~IsBlankLeaf(x_para[x_li])
    /\ x_para[x_li].fmt = current_format
    /\ current_text' = Append(current_text, x_para[x_li].text)
    /\ x_para' = [x_para EXCEPT ![x_li].text = <<>>]
    /\ x_li' = x_li + 1
    /\ UNCHANGED <<x_para0, current_format, current_elem,
                   previous_translation, x_calls, x_last_result, xpc>>
    /\ UNCHANGED otherThanXml

\* lines 168-185: the format changes and there is a unit to translate
XmlNewFormatFlush ==
    /\ xpc = "leaf"
    /\ x_li <= Len(x_para)
    /\ ~IsBlankLeaf(x_para[x_li])
    /\ x_para[x_li].fmt # current_format
    /\ HasPendingUnit
    /\ \E response \in XmlResponses :
          LET call == XmlCall(current_elem, Concat(current_text), response)
          IN  /\ x_para' = Written(x_para, current_elem, call)
              /\ previous_translation' = call.result
              /\ x_last_result' = call.result
              /\ x_calls' = Append(x_calls, call)
    /\ current_text' = <<x_para[x_li].text>>
    /\ current_format' = x_para[x_li].fmt
    /\ current_elem' = x_li
    /\ x_li' = x_li + 1
    /\ UNCHANGED <<x_para0, xpc>>
    /\ UNCHANGED otherThanXml

\* lines 168-185: the format changes and the condition of line 170 fails
XmlNewFormatNoFlush ==
    /\ xpc = "leaf"
    /\ x_li <= Len(x_para)
    /\ ~IsBlankLeaf(x_para[x_li])
    /\ x_para[x_li].fmt # current_format
    /\ ~HasPendingUnit
    /\ current_text' = <<x_para[x_li].text>>
    /\ current_format' = x_para[x_li].fmt
    /\ current_elem' = x_li
    /\ x_li' = x_li + 1
    /\ UNCHANGED <<x_para0, x_para, previous_translation, x_calls,
                   x_last_result, xpc>>
    /\ UNCHANGED otherThanXml

\* lines 187-197: the last group of the paragraph is translated
XmlEndParagraphFlush ==
    /\ xpc = "leaf"
    /\ x_li > Len(x_para)
    /\ HasPendingUnit
    /\ \E response \in XmlResponses :
          LET call == XmlCall(current_elem, Concat(current_text), response)
          IN  /\ x_para' = Written(x_para, current_elem, call)
              /\ x_last_result' = call.result
              /\ x_calls' = Append(x_calls, call)
    /\ xpc' = "para_done"
    /\ UNCHANGED <<x_para0, x_li, current_text, current_format,
                   current_elem, previous_translation>>
    /\ UNCHANGED otherThanXml

\* lines 172 and 190: translate_text raises (the call of the capability at
\* lines 111-115 is in no try); process_xml catches nothing, the tree is
\* not written back
XmlTranslateTextRaises ==
    /\ xpc = "leaf"
    /\ HasPendingUnit
    /\ ~IsTrivialUnit(Concat(current_text))
    /\ \/ x_li > Len(x_para)
       \/ /\ x_li <= Len(x_para)
          /\ ~IsBlankLeaf(x_para[x_li])
          /\ x_para[x_li].fmt # current_format
    /\ xpc' = "raised"
    /\ UNCHANGED <<x_para0, x_para, x_li, current_text, current_format,
                   current_elem, previous_translation, x_calls,
                   x_last_result>>
    /\ UNCHANGED otherThanXml

\* lines 187-188: the paragraph ends and the condition of line 188 fails
XmlEndParagraphNoFlush ==
    /\ xpc = "leaf"
    /\ x_li > Len(x_para)
    /\ ~HasPendingUnit
    /\ xpc' = "para_done"
    /\ UNCHANGED <<x_para0, x_para, x_li, current_text,
                   current_format, current_elem, previous_translation, x_calls,
                   x_last_result>>
    /\ UNCHANGED otherThanXml

\* line 152: the loop body is done, the loop goes on to the paragraphs
\* that follow; previous_translation is what the loop carries over
XmlLeaveParagraph ==
    /\ xpc = "para_done"
    /\ NestedParagraph(x_para) = <<>>
    /\ x_para0' = <<>>
    /\ x_para' = <<>>
    /\ x_li' = 0
    /\ current_text' = <<>>
    /\ current_format' = "None"
    /\ current_elem' = 0
    /\ x_calls' = <<>>
    /\ xpc' = "next"
    /\ UNCHANGED <<previous_translation, x_last_result>>
    /\ UNCHANGED otherThanXml

\* line 152: the next paragraph of findall(".//w:p") is the one nested in
\* the paragraph just processed; its leaves are as that pass left them
XmlNextNestedParagraph ==
    /\ xpc = "para_done"
    /\ NestedParagraph(x_para) # <<>>
    /\ x_para0' = NestedParagraph(x_para)
    /\ x_para' = NestedParagraph(x_para)
    /\ x_li' = 1
    /\ current_text' = <<>>
    /\ current_format' = "None"
    /\ current_elem' = 0
    /\ x_calls' = <<>>
    /\ xpc' = "leaf"
    /\ UNCHANGED <<previous_translation, x_last_result>>
    /\ UNCHANGED otherThanXml

\* line 200: no paragraph is left, the tree is written back
XmlWrite ==
    /\ xpc = "next"
    /\ xpc' = "written"
    /\ UNCHANGED <<x_para0, x_para, x_li, current_text,
                   current_format, current_elem, previous_translation, x_calls,
                   x_last_result>>
    /\ UNCHANGED otherThanXml

XmlInit ==
    /\ XmlStart
    /\ SplitIdle
    /\ ZipIdle
    /\ TextIdle
    /\ CtxIdle
    /\ ChunkIdle
    /\ ParaIdle
    /\ PromptIdle
    /\ DocIdle

XmlNext ==
    \/ XmlNextParagraph
    \/ XmlSkipLeaf
    \/ XmlMergeLeaf
    \/ XmlNewFormatFlush
    \/ XmlNewFormatNoFlush
    \/ XmlEndParagraphFlush
    \/ XmlTranslateTextRaises
    \/ XmlEndParagraphNoFlush
    \/ XmlLeaveParagraph
    \/ XmlNextNestedParagraph
    \/ XmlWrite

SpecXml == XmlInit /\ [][XmlNext]_vars

---------------------------------------------------------------------------
(* Claims about process_xml *)

\* The leaves of the parsed paragraph that hold text to translate.
TextLeaves == {i \in 1..Len(x_para0) : ~IsBlankLeaf(x_para0[i])}

\* The leaves of the merged segment that begins at leaf a: the text leaves
\* from a on, as long as they have the format of a.
SegmentFrom(a) ==
    {j \in TextLeaves :
        /\ j >= a
        /\ \A k \in TextLeaves : (a <= k /\ k <= j) => x_para0[k].fmt = x_para0[a].fmt}

\* The anchors: the text leaves that do not continue the segment of the text
\* leaf before them.
SegmentAnchors ==
    {a \in TextLeaves :
        \A k \in TextLeaves :
            (k < a /\ \A m \in TextLeaves : ~(k < m /\ m < a))
                => x_para0[k].fmt # x_para0[a].fmt}

\* The texts of a set of leaves, joined in document order.
RECURSIVE JoinLeaves(_, _)
JoinLeaves(leaves, from) ==
    IF from > Len(x_para0) THEN <<>>
    ELSE (IF from \in leaves THEN x_para0[from].text ELSE <<>>)
             \o JoinLeaves(leaves, from + 1)

\* C6 (as claimed): once a paragraph is processed, the anchor of every
\* merged segment holds what translate_text returned for the text of the
\* whole segment, and the other leaves of the segment are empty.
C6_AnchorHoldsTranslation ==
    xpc = "para_done" =>
        \A a \in SegmentAnchors :
            /\ \E n \in 1..Len(x_calls) :
                  /\ x_calls[n].anchor = a
                  /\ x_calls[n].text = JoinLeaves(SegmentFrom(a), 1)
                  /\ x_para[a].text = x_calls[n].result
            /\ \A j \in SegmentFrom(a) \ {a} : x_para[j].text = <<>>

\* C7 (as claimed): a paragraph of one text leaf, with or without run
\* properties, has the text of the leaf submitted once and replaced by the
\* translation returned; the leaf is not left empty.
C7_SingleLeafTranslated ==
    (/\ xpc = "para_done"
     /\ Len(x_para0) = 1
     /\ ~IsTrivialUnit(x_para0[1].text)) =>
        /\ Len(x_calls) = 1
        /\ x_calls[1].submitted
        /\ x_calls[1].text = x_para0[1].text
        /\ x_para[1].text = x_calls[1].result
        /\ x_para[1].text # <<>>

---------------------------------------------------------------------------
(* src/translator/base_translator.py: translate_text, _process_response *)

\* The wrapper markers "<translation_text>" and "</translation_text>", one
\* character per element.
BaseOpenTag ==
    <<"<", "t", "r", "a", "n", "s", "l", "a", "t", "i", "o", "n", "_",
      "t", "e", "x", "t", ">">>
BaseCloseTag ==
    <<"<", "/", "t", "r", "a", "n", "s", "l", "a", "t", "i", "o", "n",
      "_", "t", "e", "x", "t", ">">>

\* _process_response, lines 117-124
process_response(response) ==
    LET t           == ReplaceEszett(Strip(response))
        start_index == IF StartsWith(t, BaseOpenTag) THEN Len(BaseOpenTag) ELSE 0
        end_index   == Find(t, BaseCloseTag)
    IN  Slice(t, start_index, end_index)

\* str.lower(): the ASCII capitals, and the Kelvin sign U+212A, the one
\* other character that str.lower() turns into an ASCII letter (written by
\* its code point).
Lower(t) ==
    LET upper ==
            <<"A", "B", "C", "D", "E", "F", "G", "H", "I", "J", "K", "L", "M",
              "N", "O", "P", "Q", "R", "S", "T", "U", "V", "W", "X", "Y", "Z">>
        lower ==
            <<"a", "b", "c", "d", "e", "f", "g", "h", "i", "j", "k", "l", "m",
              "n", "o", "p", "q", "r", "s", "t", "u", "v", "w", "x", "y", "z">>
    IN  [i \in 1..Len(t) |->
            IF t[i] = "U+212A" THEN "k"
            ELSE IF \E k \in 1..Len(upper) : upper[k] = t[i]
            THEN lower[CHOOSE k \in 1..Len(upper) : upper[k] = t[i]]
            ELSE t[i]]

\* Lines 96-99: not config.source_language or config.source_language.lower()
\* in ["auto", "automatisch erkennen"]
BaseNeedsDetection(source_language) ==
    \/ source_language = None
    \/ source_language = <<>>
    \/ Lower(source_language) = <<"a", "u", "t", "o">>
    \/ Lower(source_language)
           = <<"a", "u", "t", "o", "m", "a", "t", "i", "s", "c", "h", " ",
               "e", "r", "k", "e", "n", "n", "e", "n">>

\* xml_translate.py:58: source_language is None or source_language == "auto"
XmlNeedsDetection(source_language) ==
    source_language = None \/ source_language = <<"a", "u", "t", "o">>

\* The texts passed to translate_text.
UnitChars == {"a", " ", "\r"}
Units == StringsUpTo(UnitChars, MaxUnitLen)

\* What detect_language returns: a language code, or None after a
\* LangDetectException (src/utils.py:9-14).
DetectResults == {<<"e", "n">>, <<"d", "e">>, None}

\* The source languages a caller configures.
SourceLanguages ==
    {None, <<"a", "u", "t", "o">>, <<"a", "U", "T", "O">>, <<"e", "n">>}

\* The glossaries a caller configures: None (the default), or a string.
Glossaries == {"None", "", "t:d"}

\* The completions _process_response is called with: the text wrapped in
\* both markers, the text with the closing marker only (the prompt ends
\* with the opening marker), and texts that were cut before the closing
\* marker.
BaseResponses ==
    {BaseOpenTag \o <<"X", "ß">> \o BaseCloseTag,
     <<" ", "Z", "w", ".", " ">> \o BaseCloseTag,
     BaseOpenTag \o <<"X", "y">>,
     <<"Y", "z">>}

\* The completions translate_text of xml_translate.py is called with here:
\* those of process_xml, and a text that was cut before the closing marker.
TextXmlResponses == XmlResponses \cup {XmlOpenTag \o <<"X", "y">>}

TextStart ==
    /\ t_config \in [source_language : SourceLanguages, glossary : Glossaries]
    /\ t_call = NoCall

\* lines 93-94: the text is returned as it is
BaseTranslateTrivial ==
    /\ t_call = NoCall
    /\ \E unit \in Units :
          /\ IsTrivialUnit(unit)
          /\ t_call' = [impl |-> "base", unit |-> unit, result |-> unit,
                        raised |-> FALSE, detected |-> FALSE,
                        detect_arg |-> <<>>, submitted |-> FALSE,
                        source_language |-> t_config.source_language,
                        response |-> <<>>]
    /\ UNCHANGED t_config
    /\ UNCHANGED otherThanText

\* lines 96-104: _get_glossary_prompt raises for the glossary None
\* (None.replace), after the language was detected
BaseTranslateNoGlossary ==
    /\ t_call = NoCall
    /\ t_config.glossary = "None"
    /\ \E unit \in Units, lang \in DetectResults :
          LET detect == BaseNeedsDetection(t_config.source_language)
          IN  /\ ~IsTrivialUnit(unit)
              /\ t_config' = [t_config EXCEPT !.source_language =
                                 IF detect THEN lang ELSE @]
              /\ t_call' = [impl |-> "base", unit |-> unit, result |-> <<>>,
                            raised |-> TRUE, detected |-> detect,
                            detect_arg |-> IF detect THEN unit ELSE <<>>,
                            submitted |-> FALSE,
                            source_language |-> t_config.source_language,
                            response |-> <<>>]
    /\ UNCHANGED otherThanText

\* lines 96-109: the language is detected if it is not set and the prompt
\* is rendered; the arguments of completions.create are evaluated and
\* self.llm_config.num_ctx raises AttributeError, LLMConfig (config.py:9-18)
\* having no such field: the capability is not called
BaseTranslateNoNumCtx ==
    /\ t_call = NoCall
    /\ t_config.glossary # "None"
    /\ \E unit \in Units, lang \in DetectResults :
          LET detect == BaseNeedsDetection(t_config.source_language)
          IN  /\ ~IsTrivialUnit(unit)
              /\ t_config' = [t_config EXCEPT !.source_language =
                                 IF detect THEN lang ELSE @]
              /\ t_call' = [impl |-> "base", unit |-> unit, result |-> <<>>,
                            raised |-> TRUE, detected |-> detect,
                            detect_arg |-> IF detect THEN unit ELSE <<>>,
                            submitted |-> FALSE,
                            source_language |-> t_config.source_language,
                            response |-> <<>>]
    /\ UNCHANGED otherThanText

\* _process_response called with a completion
BaseProcessResponse ==
    /\ t_call = NoCall
    /\ \E response \in BaseResponses :
          t_call' = [impl |-> "process_response", unit |-> <<>>,
                     result |-> process_response(response),
                     raised |-> FALSE, detected |-> FALSE,
                     detect_arg |-> <<>>, submitted |-> FALSE,
                     source_language |-> None, response |-> response]
    /\ UNCHANGED t_config
    /\ UNCHANGED otherThanText

\* xml_translate.py:55-56: the text is returned as it is
XmlTranslateTrivial ==
    /\ t_call = NoCall
    /\ \E unit \in Units, source_language \in SourceLanguages :
          /\ IsTrivialUnit(unit)
          /\ t_call' = [impl |-> "xml", unit |-> unit,
                        result |-> xml_translate_text(unit, <<>>),
                        raised |-> FALSE, detected |-> FALSE,
                        detect_arg |-> <<>>, submitted |-> FALSE,
                        source_language |-> source_language,
                        response |-> <<>>]
    /\ UNCHANGED t_config
    /\ UNCHANGED otherThanText

\* xml_translate.py:58-124: the language is detected if the argument
\* source_language is not set, the capability called, its completion cut
XmlTranslate ==
    /\ t_call = NoCall
    /\ \E unit \in Units, source_language \in SourceLanguages,
          response \in TextXmlResponses :
          LET detect == XmlNeedsDetection(source_language)
          IN  /\ ~IsTrivialUnit(unit)
              /\ t_call' = [impl |-> "xml", unit |-> unit,
                            result |-> xml_translate_text(unit, response),
                            raised |-> FALSE, detected |-> detect,
                            detect_arg |-> IF detect THEN unit ELSE <<>>,
                            submitted |-> TRUE,
                            source_language |-> source_language,
                            response |-> response]
    /\ UNCHANGED t_config
    /\ UNCHANGED otherThanText

\* xml_translate.py:111-115: the call of the capability raises
XmlTranslateFails ==
    /\ t_call = NoCall
    /\ \E unit \in Units, source_language \in SourceLanguages :
          LET detect == XmlNeedsDetection(source_language)
          IN  /\ ~IsTrivialUnit(unit)
              /\ t_call' = [impl |-> "xml", unit |-> unit, result |-> <<>>,
                            raised |-> TRUE, detected |-> detect,
                            detect_arg |-> IF detect THEN unit ELSE <<>>,
                            submitted |-> TRUE,
                            source_language |-> source_language,
                            response |-> <<>>]
    /\ UNCHANGED t_config
    /\ UNCHANGED otherThanText

\* the caller has the result (or the exception) and goes on to its next unit
TextNextUnit ==
    /\ t_call # NoCall
    /\ t_call' = NoCall
    /\ UNCHANGED t_config
    /\ UNCHANGED otherThanText

TextInit ==
    /\ TextStart
    /\ SplitIdle
    /\ ZipIdle
    /\ XmlIdle
    /\ CtxIdle
    /\ ChunkIdle
    /\ ParaIdle
    /\ PromptIdle
    /\ DocIdle

TextNext ==
    \/ BaseTranslateTrivial
    \/ BaseTranslateNoGlossary
    \/ BaseTranslateNoNumCtx
    \/ BaseProcessResponse
    \/ XmlTranslateTrivial
    \/ XmlTranslate
    \/ XmlTranslateFails
    \/ TextNextUnit

SpecText == TextInit /\ [][TextNext]_vars

---------------------------------------------------------------------------
(* Claims about translate_text *)

\* C8: a unit that is empty, all whitespace, or one character after
\* stripping is returned unchanged by translate_text (both implementations),
\* with no call of the language detection and none of the capability.
C8_TrivialUnitUntouched ==
    (t_call.impl \in {"base", "xml"} /\ Len(Strip(t_call.unit)) <= 1) =>
        /\ ~t_call.raised
        /\ t_call.result = t_call.unit
        /\ ~t_call.detected
        /\ ~t_call.submitted

\* C8 witness: translate_text was called with one character between
\* whitespace and returned.
C8_Witness ==
    /\ t_call.impl = "base"
    /\ Len(t_call.unit) = 3
    /\ Len(Strip(t_call.unit)) = 1
    /\ t_call.result = t_call.unit

---------------------------------------------------------------------------
(* src/translator/pdf_translator.py: _create_translation_context *)

\* Lines 148 and 161: the sentence boundaries, in the order they are tried.
SentenceEnds ==
    <<(<<".", " ">>), (<<"!", " ">>), (<<"?", " ">>),
      (<<".", "\n">>), (<<"!", "\n">>), (<<"?", "\n">>)>>

\* The for-loops of lines 148-151 and 161-164: find() of the first of the
\* boundaries, taken in their order, that occurs in s; -1 if none does.
RECURSIVE FirstBoundary(_, _)
FirstBoundary(s, n) ==
    IF n > Len(SentenceEnds) THEN -1
    ELSE IF Find(s, SentenceEnds[n]) # -1 THEN Find(s, SentenceEnds[n])
    ELSE FirstBoundary(s, n + 1)

\* Lines 146-154: the new translation alone is longer than the limit.
TruncatedTranslation(new_translation, max_context_length) ==
    LET start_pos == FirstBoundary(Slice(new_translation, -max_context_length,
                                         Len(new_translation)), 1)
    IN  IF start_pos # -1
        THEN SliceFrom(new_translation, -(max_context_length - start_pos - 2))
        ELSE SliceFrom(new_translation, -max_context_length)

\* Lines 157-166: the combined context is trimmed from the beginning.
TrimmedContext(combined, max_context_length) ==
    LET excess    == Len(combined) - max_context_length
        truncated == SliceFrom(combined, excess)
        start_pos == FirstBoundary(truncated, 1)
    IN  IF start_pos # -1 THEN SliceFrom(truncated, start_pos + 2)
        ELSE truncated

\* _create_translation_context, lines 122-166
create_translation_context(current_context, new_translation, max_context_length) ==
    LET separator == IF current_context # <<>> /\ new_translation # <<>>
                     THEN <<" ">> ELSE <<>>
        combined  == current_context \o separator \o new_translation
    IN  IF Len(combined) <= max_context_length THEN combined
        ELSE IF Len(new_translation) > max_context_length
        THEN TruncatedTranslation(new_translation, max_context_length)
        ELSE TrimmedContext(combined, max_context_length)

---------------------------------------------------------------------------
(* src/translator/pdf_translator.py: translate, the context of the spans *)

\* The texts of the spans, and the new translations
\* _create_translation_context is called with.
CtxChars == {"a", ".", " "}
SpanTranslations == StringsUpTo(CtxChars, MaxSpanLen)

\* line 18: translation_config.context = "", or the first call of
\* _create_translation_context on its own
CtxStart ==
    /\ c_max_length \in 1..MaxContextLength
    /\ c_context = <<>>
    /\ c_before = <<>>
    /\ c_new = NoSpan
    /\ cpc \in {"function", "translate"}

\* _create_translation_context(current_context, new_translation,
\* max_context_length) called with the context it returned before
ContextCall ==
    /\ cpc = "function"
    /\ \E new_translation \in SpanTranslations :
          /\ c_new' = new_translation
          /\ c_context' = create_translation_context(c_context, new_translation,
                                                     c_max_length)
    /\ c_before' = c_context
    /\ UNCHANGED <<c_max_length, cpc>>
    /\ UNCHANGED otherThanCtx

\* lines 55-58: translate_text returns the text of the span as it is
\* (base_translator.py:93-94) and the context is updated; translate passes
\* no limit, max_context_length is the default of the signature, which
\* c_max_length stands for at the scale of MaxContextLength
PdfTranslateSpan ==
    /\ cpc = "translate"
    /\ c_new = NoSpan
    /\ \E orig_text \in SpanTranslations :
          /\ IsTrivialUnit(orig_text)
          /\ c_new' = orig_text
          /\ c_context' = create_translation_context(c_context, orig_text,
                                                     c_max_length)
    /\ c_before' = c_context
    /\ UNCHANGED <<c_max_length, cpc>>
    /\ UNCHANGED otherThanCtx

\* line 55: translate_text raises for a span of more than one character
\* (AttributeError, base_translator.py:84 or 109); translate ends with the
\* exception through the finally of lines 118-120, the context as it was
PdfTranslateSpanRaises ==
    /\ cpc = "translate"
    /\ c_new = NoSpan
    /\ \E orig_text \in SpanTranslations : ~IsTrivialUnit(orig_text)
    /\ cpc' = "raised"
    /\ UNCHANGED <<c_max_length, c_context, c_before, c_new>>
    /\ UNCHANGED otherThanCtx

\* lines 59-103: the span is written, the loops go on to the next span
PdfNextSpan ==
    /\ cpc = "translate"
    /\ c_new # NoSpan
    /\ c_new' = NoSpan
    /\ c_before' = <<>>
    /\ UNCHANGED <<c_max_length, c_context, cpc>>
    /\ UNCHANGED otherThanCtx

CtxInit ==
    /\ CtxStart
    /\ SplitIdle
    /\ ZipIdle
    /\ XmlIdle
    /\ TextIdle
    /\ ChunkIdle
    /\ ParaIdle
    /\ PromptIdle
    /\ DocIdle

CtxNext ==
    \/ ContextCall
    \/ PdfTranslateSpan
    \/ PdfTranslateSpanRaises
    \/ PdfNextSpan

SpecCtx == CtxInit /\ [][CtxNext]_vars

---------------------------------------------------------------------------
(* Claims about the rolling context *)

\* C9 (as claimed): for max_context_length >= 1 the context is never
\* longer than max_context_length, after any sequence of updates.
C9_ContextWithinLimit == Len(c_context) <= c_max_length

---------------------------------------------------------------------------
(* src/llm_translate.py: the helpers of the chunked pipeline *)

\* split_into_chunks as a function of its arguments: the loop of lines
\* 38-46 from the offset st on, for max_length >= 1.
RECURSIVE SplitFrom(_, _, _, _)
SplitFrom(t, st, ml, ov) ==
    IF ~(st < Len(t)) THEN <<>>
    ELSE LET end == st + ml
             r   == IF end >= Len(t) THEN SplitLast(t, st)
                    ELSE SplitCut(t, st, find_last_period(t, st, end, ov), ov)
         IN  <<r.chunk>> \o SplitFrom(t, r.start, ml, ov)

split_into_chunks(t, ml, ov) == SplitFrom(t, 0, ml, ov)

\* find_context_start, lines 59-65.  The loop reads t[i] for i from
\* end - overlap down to 1 and returns behind the first period it meets;
\* its first read is out of range when end - overlap >= len(t), and then
\* the function raises IndexError.
find_context_start(t, end, ov) ==
    LET first == end - ov
        hits  == {i \in 1..first : i < Len(t) /\ t[i + 1] = "."}
    IN  IF first >= 1 /\ first >= Len(t)
        THEN [raised |-> TRUE, start |-> 0]
        ELSE IF hits # {}
        THEN [raised |-> FALSE,
              start |-> (CHOOSE i \in hits : \A j \in hits : j <= i) + 1]
        ELSE [raised |-> FALSE, start |-> Max(0, end - ov)]

\* sep.join(list)
RECURSIVE JoinWith(_, _)
JoinWith(list, sep) ==
    IF list = <<>> THEN <<>>
    ELSE IF Len(list) = 1 THEN Head(list)
    ELSE Head(list) \o sep \o JoinWith(Tail(list), sep)

\* combine_translations, lines 205-211: the chunks joined by a blank;
\* ValueError is raised when the joined text is empty
combine_translations(translated_chunks) ==
    LET final_translation == JoinWith(translated_chunks, <<" ">>)
    IN  [raised |-> Len(final_translation) = 0,
         final_translation |-> final_translation]

\* The introductory phrase "Here is the translated text:", one character
\* per element.
Intro ==
    <<"H", "e", "r", "e", " ", "i", "s", " ", "t", "h", "e", " ", "t",
      "r", "a", "n", "s", "l", "a", "t", "e", "d", " ", "t", "e", "x",
      "t", ":">>

\* translate_chunk, lines 97-104: what is made of the completion.
chunk_translation(content) ==
    LET translated_text == Strip(content)
    IN  IF StartsWith(translated_text, Intro)
        THEN Strip(SliceFrom(translated_text, Len(Intro)))
        ELSE translated_text

\* The completions of the capability; None stands for a call that raised
\* openai.OpenAIError (lines 105-107).
ChunkCompletions ==
    {None, Intro, Intro \o <<" ", "X", ".">>, <<" ", "Y", "z">>,
     <<"Z", ".", "w", "w">>}

\* What translate_chunk returns for a completion.
translate_chunk(content) ==
    IF content = None THEN None ELSE chunk_translation(content)

\* `if translated_chunk:` (line 121) is false for None and for "".
Truthy(translated_chunk) ==
    translated_chunk # None /\ translated_chunk # <<>>

---------------------------------------------------------------------------
(* src/llm_translate.py: chunk_and_translate with translate_chunks, one
   iteration of the loop over the chunks per step *)

\* A record logged at level ERROR; chunk is -1 when the message names none.
LogRecord(message, chunk) == [message |-> message, chunk |-> chunk]

\* Mutant of ChunkOutcome: a chunk without a result is kept as it is and
\* the loop goes on with the next chunk.
ChunkOutcomeKeepsOriginal(translated_chunks, chunk, translated_chunk) ==
    IF Truthy(translated_chunk)
    THEN [translated_chunks |-> Append(translated_chunks, translated_chunk),
          returned |-> FALSE]
    ELSE [translated_chunks |-> Append(translated_chunks, chunk),
          returned |-> FALSE]

\* translate_chunks, lines 121-126: the list after the chunk, and whether
\* the function returns None at this chunk.
ChunkOutcome(translated_chunks, chunk, translated_chunk) ==
    IF Truthy(translated_chunk)
    THEN [translated_chunks |-> Append(translated_chunks, translated_chunk),
          returned |-> FALSE]
    ELSE [translated_chunks |-> translated_chunks,
          returned |-> TRUE]

\* translate_chunks, lines 115-118: the context of chunk i (0-based); the
\* text is the part of the previous translation the prompt repeats.
ChunkContext(translated_chunks, i, ov) ==
    IF i = 0 THEN [raised |-> FALSE, given |-> FALSE, text |-> <<>>]
    ELSE LET previous == translated_chunks[Len(translated_chunks)]
             r        == find_context_start(previous, Len(previous), ov)
         IN  [raised |-> r.raised, given |-> TRUE,
              text |-> IF r.raised THEN <<>> ELSE SliceFrom(previous, r.start)]

\* One call of translate_chunk as the loop made it.
ChunkCall(i, chunk, context, translated_chunk) ==
    [chunk |-> i, text |-> chunk, context_given |-> context.given,
     context |-> context.text, result |-> translated_chunk]

ChunkStart ==
    /\ k_text \in StringsUpTo(SplitChars, MaxTextLen)
    /\ k_max_length \in 1..MaxMaxLength
    /\ k_overlap \in 0..MaxOverlap
    /\ k_chunks = <<>>
    /\ k_translated = <<>>
    /\ k_calls = <<>>
    /\ k_log = <<>>
    /\ k_result = None
    /\ kpc = "start"

\* chunk_and_translate, line 132
ChunkSplit ==
    /\ kpc = "start"
    /\ k_chunks' = split_into_chunks(k_text, k_max_length, k_overlap)
    /\ kpc' = "chunks"
    /\ UNCHANGED <<k_text, k_max_length, k_overlap, k_translated, k_calls,
                   k_log, k_result>>
    /\ UNCHANGED otherThanChunk

\* translate_chunks, lines 114-123: the chunk has a translation
ChunkTranslated ==
    /\ kpc = "chunks"
    /\ Len(k_calls) < Len(k_chunks)
    /\ LET i       == Len(k_calls)
           chunk   == k_chunks[i + 1]
           context == ChunkContext(k_translated, i, k_overlap)
       IN  /\ ~context.raised
           /\ \E content \in ChunkCompletions :
                 LET translated_chunk == translate_chunk(content)
                     out == ChunkOutcome(k_translated, chunk, translated_chunk)
                 IN  /\ ~out.returned
                     /\ k_translated' = out.translated_chunks
                     /\ k_calls' = Append(k_calls,
                            ChunkCall(i, chunk, context, translated_chunk))
                     /\ k_log' = IF content = None
                                 THEN Append(k_log,
                                             LogRecord("translate_error", -1))
                                 ELSE k_log
    /\ UNCHANGED <<k_text, k_max_length, k_overlap, k_chunks, k_result, kpc>>
    /\ UNCHANGED otherThanChunk

\* translate_chunks, lines 114-126: the chunk has no translation, the
\* function returns None; chunk_and_translate, lines 134-139, returns None
ChunkFailed ==
    /\ kpc = "chunks"
    /\ Len(k_calls) < Len(k_chunks)
    /\ LET i       == Len(k_calls)
           chunk   == k_chunks[i + 1]
           context == ChunkContext(k_translated, i, k_overlap)
       IN  /\ ~context.raised
           /\ \E content \in ChunkCompletions :
                 LET translated_chunk == translate_chunk(content)
                     out == ChunkOutcome(k_translated, chunk, translated_chunk)
                 IN  /\ out.returned
                     /\ k_translated' = out.translated_chunks
                     /\ k_calls' = Append(k_calls,
                            ChunkCall(i, chunk, context, translated_chunk))
                     /\ k_log' =
                            (IF content = None
                             THEN Append(k_log,
                                         LogRecord("translate_error", -1))
                             ELSE k_log)
                            \o <<LogRecord("chunk_failed", i),
                                 LogRecord("process_failed", -1)>>
    /\ k_result' = None
    /\ kpc' = "returned"
    /\ UNCHANGED <<k_text, k_max_length, k_overlap, k_chunks>>
    /\ UNCHANGED otherThanChunk

\* translate_chunks, line 117: find_context_start raises IndexError, which
\* neither translate_chunks nor chunk_and_translate catches
ChunkContextRaises ==
    /\ kpc = "chunks"
    /\ Len(k_calls) < Len(k_chunks)
    /\ ChunkContext(k_translated, Len(k_calls), k_overlap).raised
    /\ kpc' = "raised"
    /\ UNCHANGED <<k_text, k_max_length, k_overlap, k_chunks, k_translated,
                   k_calls, k_log, k_result>>
    /\ UNCHANGED otherThanChunk

\* translate_chunks, line 119: translate_chunk raises an exception that is
\* no OpenAIError (lines 68-71 before the try; line 97 when the completion
\* has no content), which no function up to chunk_and_translate catches;
\* k_calls keeps the calls that returned
ChunkTranslateRaises ==
    /\ kpc = "chunks"
    /\ Len(k_calls) < Len(k_chunks)
    /\ ~ChunkContext(k_translated, Len(k_calls), k_overlap).raised
    /\ kpc' = "raised"
    /\ UNCHANGED <<k_text, k_max_length, k_overlap, k_chunks, k_translated,
                   k_calls, k_log, k_result>>
    /\ UNCHANGED otherThanChunk

\* translate_chunks, line 127, and chunk_and_translate, lines 134-137
ChunkCombine ==
    /\ kpc = "chunks"
    /\ Len(k_calls) = Len(k_chunks)
    /\ k_translated # <<>>
    /\ ~combine_translations(k_translated).raised
    /\ k_result' = combine_translations(k_translated).final_translation
    /\ kpc' = "returned"
    /\ UNCHANGED <<k_text, k_max_length, k_overlap, k_chunks, k_translated,
                   k_calls, k_log>>
    /\ UNCHANGED otherThanChunk

\* translate_chunks, line 127, returns the empty list: chunk_and_translate,
\* lines 134 and 138-139, logs the failure and returns None
ChunkNothingTranslated ==
    /\ kpc = "chunks"
    /\ Len(k_calls) = Len(k_chunks)
    /\ k_translated = <<>>
    /\ k_log' = Append(k_log, LogRecord("process_failed", -1))
    /\ k_result' = None
    /\ kpc' = "returned"
    /\ UNCHANGED <<k_text, k_max_length, k_overlap, k_chunks, k_translated,
                   k_calls>>
    /\ UNCHANGED otherThanChunk

ChunkInit ==
    /\ ChunkStart
    /\ SplitIdle
    /\ ZipIdle
    /\ XmlIdle
    /\ TextIdle
    /\ CtxIdle
    /\ ParaIdle
    /\ PromptIdle
    /\ DocIdle

ChunkNext ==
    \/ ChunkSplit
    \/ ChunkTranslated
    \/ ChunkFailed
    \/ ChunkContextRaises
    \/ ChunkTranslateRaises
    \/ ChunkCombine
    \/ ChunkNothingTranslated

SpecChunks == ChunkInit /\ [][ChunkNext]_vars

---------------------------------------------------------------------------
(* Claims about a chunk without a result *)

\* The calls of translate_chunk that came back with no result.
FailedCalls == {n \in 1..Len(k_calls) : ~Truthy(k_calls[n].result)}

\* The records "Translation failed for chunk i" in the log.
FailureRecords(i) ==
    {j \in 1..Len(k_log) : k_log[j] = LogRecord("chunk_failed", i)}

\* The output the claim describes: the translation of every chunk that has
\* one and the original text of every chunk that has none.
OutputKeepingOriginals ==
    combine_translations([n \in 1..Len(k_calls) |->
        IF Truthy(k_calls[n].result) THEN k_calls[n].result
        ELSE k_calls[n].text]).final_translation

\* C10 (as claimed): when the capability returns no result for chunk k,
\* processing continues with chunk k+1, the final output holds the original
\* text of chunk k and the translations of the other chunks, and exactly one
\* warning is recorded for chunk k.
C10_ContinuesWithOriginal ==
    (kpc = "returned" /\ FailedCalls # {}) =>
        /\ Len(k_calls) = Len(k_chunks)
        /\ k_result = OutputKeepingOriginals
        /\ \A n \in FailedCalls :
               Cardinality(FailureRecords(k_calls[n].chunk)) = 1

\* C10 (amended): when the capability returns no result for chunk k,
\* processing stops at chunk k: no later chunk is submitted, exactly one
\* failure is logged for chunk k, and chunk_and_translate returns None
\* instead of a final output.
C10_StopsAtFailedChunk ==
    (kpc = "returned" /\ FailedCalls # {}) =>
        /\ FailedCalls = {Len(k_calls)}
        /\ Cardinality(FailureRecords(k_calls[Len(k_calls)].chunk)) = 1
        /\ \A i \in 0..Len(k_chunks) :
               i # k_calls[Len(k_calls)].chunk => FailureRecords(i) = {}
        /\ k_result = None

\* The second of three chunks came back without a result, after the first
\* was translated, and chunk_and_translate has returned.
C10_Witness ==
    /\ kpc = "returned"
    /\ Len(k_chunks) = 3
    /\ Len(k_calls) = 2
    /\ Truthy(k_calls[1].result)
    /\ k_calls[2].result = <<>>
    /\ k_result = None

---------------------------------------------------------------------------
(* Claims about the failures of document translation *)

\* translate_docx or translate_document has returned or raised.
ZipExited == zpc \in {"done", "raised"}

\* C11 (as claimed): when writing a part of the output archive fails, no
\* file exists at the output path afterwards.
C11_NoOutputAfterFailedWrite ==
    (ZipExited /\ zerr \in {"rezip", "write"}) => ~out_exists

\* C12: on every exit of translate_docx after mkdtemp (success, failure
\* while extracting, while translating a part, while re-zipping) the
\* temporary directory and everything in it has been removed.
C12_TempDirRemoved ==
    (ZipExited /\ temp_dir # "none") =>
        /\ temp_dir = "removed"
        /\ fs_files = <<>>
        /\ fs_dirs = {}

\* C12 witness: translate_docx raised while a part was translated, after
\* the archive had been extracted, and the directory is gone.
C12_Witness ==
    /\ zpc = "raised"
    /\ zerr = "process"
    /\ temp_dir = "removed"
    /\ fs_files = <<>>

\* C13 (as claimed): a package without word/document.xml makes the
\* translation fail with an error for the caller, and no output package is
\* produced (failures of the write itself set aside).
C13_MissingBodyPartFails ==
    (/\ ZipExited
     /\ "word/document.xml" \notin PathSetOf(pkg_in)
     /\ zerr \notin {"rezip", "write"}) =>
        /\ zerr # "none"
        /\ ~out_exists

---------------------------------------------------------------------------
(* src/llm_translate.py: split_text and translate_paragraphs *)

\* The number of w:t elements of a paragraph, and the length of the text
\* chunk_and_translate returns for it.
MaxParaLeaves == 3
MaxTranslatedLen == 4

\* text.split('#')
RECURSIVE SplitOnHash(_)
SplitOnHash(t) ==
    LET i == Find(t, <<"#">>)
    IN  IF i = -1 THEN <<t>>
        ELSE <<Slice(t, 0, i)>> \o SplitOnHash(SliceFrom(t, i + 1))

\* Lines 198-199: empty strings are appended while the list is shorter
\* than n_parts.
PadParts(split_texts, n_parts) ==
    IF Len(split_texts) < n_parts
    THEN split_texts \o [i \in 1..(n_parts - Len(split_texts)) |-> <<>>]
    ELSE split_texts

\* Mutant of split_text: missing parts are padded, extra parts are kept.
SplitTextKeepsExtraParts(t, n_parts) ==
    LET split_texts == SplitOnHash(t)
    IN  IF Len(split_texts) # n_parts
        THEN PadParts(split_texts, n_parts)
        ELSE split_texts

\* split_text, lines 190-203
split_text(t, n_parts) ==
    LET split_texts == SplitOnHash(t)
    IN  IF Len(split_texts) # n_parts
        THEN Slice(PadParts(split_texts, n_parts), 0, n_parts)
        ELSE split_texts

\* Lines 195-196: the warning is logged when the counts differ.
SplitTextWarns(t, n_parts) == Len(SplitOnHash(t)) # n_parts

\* t.text of the w:t elements: None (read as ''), or a text; the text of
\* a document may hold the character '#'.
LeafTexts == {<<>>, <<"a">>, <<"#">>}
ParaTexts == UNION {[1..n -> LeafTexts] : n \in 0..MaxParaLeaves}

\* The defaults of max_length and overlap (lines 32, 129 and 141).
DefaultMaxLength == 5000
DefaultOverlap == 200

\* Line 153: '#'.join([t.text or '' for t in texts])
paragraph_text(texts) == JoinWith(texts, <<"#">>)

\* What chunk_and_translate returns for a paragraph text: None when the
\* text is empty (there is no chunk) or a chunk has no translation,
\* otherwise the combined translation, which is not empty; the capability
\* may return the text as it got it.
ParaTranslations(t) ==
    IF t = <<>> THEN {None}
    ELSE {None, t} \cup (StringsUpTo({"x", "#"}, MaxTranslatedLen) \ {<<>>})

ParaStart ==
    /\ p_texts \in ParaTexts
    /\ p_translated = None
    /\ p_split = <<>>
    /\ p_written = <<>>
    /\ p_log = <<>>
    /\ ppc = "start"

\* lines 152-162: the paragraph is translated, the translation split and
\* written back to the w:t elements
ParaTranslated ==
    /\ ppc = "start"
    /\ \E translated_text \in ParaTranslations(paragraph_text(p_texts)) :
          /\ Truthy(translated_text)
          /\ p_translated' = translated_text
          /\ LET split_texts == split_text(translated_text, Len(p_texts))
                 n == Min(Len(p_texts), Len(split_texts))
             IN  /\ p_split' = split_texts
                 \* for t, new_text in zip(texts, split_texts)
                 /\ p_written' = [i \in 1..Len(p_texts) |->
                                     IF i <= n THEN split_texts[i]
                                     ELSE p_texts[i]]
          /\ p_log' = IF SplitTextWarns(translated_text, Len(p_texts))
                      THEN <<LogRecord("mismatch", -1)>> ELSE <<>>
    /\ ppc' = "written"
    /\ UNCHANGED p_texts
    /\ UNCHANGED otherThanPara

\* lines 152-165: chunk_and_translate returned nothing for the paragraph,
\* translate_paragraphs logs the failure and returns None. Before that
\* record the log has the records of chunk_and_translate (lines 106, 125
\* and 138): when the text is empty there is no chunk and line 138 alone
\* logs; otherwise chunk i has no translation, after an error of the
\* capability, which line 106 logs, or with an empty completion
ParaFailed ==
    /\ ppc = "start"
    /\ \E translated_text \in ParaTranslations(paragraph_text(p_texts)) :
          /\ ~Truthy(translated_text)
          /\ p_translated' = translated_text
    /\ LET para_chunks == split_into_chunks(paragraph_text(p_texts),
                                            DefaultMaxLength, DefaultOverlap)
       IN  IF para_chunks = <<>>
           THEN p_log' = <<LogRecord("process_failed", -1),
                           LogRecord("paragraph_failed", -1)>>
           ELSE \E i \in 0..(Len(para_chunks) - 1), error \in BOOLEAN :
                   p_log' = (IF error
                             THEN <<LogRecord("translate_error", -1)>>
                             ELSE <<>>)
                            \o <<LogRecord("chunk_failed", i),
                                 LogRecord("process_failed", -1),
                                 LogRecord("paragraph_failed", -1)>>
    /\ ppc' = "failed"
    /\ UNCHANGED <<p_texts, p_split, p_written>>
    /\ UNCHANGED otherThanPara

\* line 156: chunk_and_translate raises (IndexError of find_context_start,
\* an exception of translate_chunk that is no OpenAIError);
\* translate_paragraphs catches nothing
ParaRaises ==
    /\ ppc = "start"
    /\ ppc' = "raised"
    /\ UNCHANGED <<p_texts, p_translated, p_split, p_written, p_log>>
    /\ UNCHANGED otherThanPara

\* line 150: the loop goes on to the next paragraph
ParaNextParagraph ==
    /\ ppc = "written"
    /\ p_texts' \in ParaTexts
    /\ p_translated' = None
    /\ p_split' = <<>>
    /\ p_written' = <<>>
    /\ p_log' = <<>>
    /\ ppc' = "start"
    /\ UNCHANGED otherThanPara

\* line 167: no paragraph is left, the tree is serialised and returned
ParaReturn ==
    /\ ppc = "written"
    /\ ppc' = "returned"
    /\ UNCHANGED <<p_texts, p_translated, p_split, p_written, p_log>>
    /\ UNCHANGED otherThanPara

ParaInit ==
    /\ ParaStart
    /\ SplitIdle
    /\ ZipIdle
    /\ XmlIdle
    /\ TextIdle
    /\ CtxIdle
    /\ ChunkIdle
    /\ PromptIdle
    /\ DocIdle

ParaNext ==
    \/ ParaTranslated
    \/ ParaFailed
    \/ ParaRaises
    \/ ParaNextParagraph
    \/ ParaReturn

SpecPara == ParaInit /\ [][ParaNext]_vars

---------------------------------------------------------------------------
(* Claims about split_text *)

\* The number of delimiter-separated parts of a text: one more than the
\* number of '#' in it.
PartCount(t) == Cardinality({i \in 1..Len(t) : t[i] = "#"}) + 1

\* C14: for n >= 1, split_text(text, n) returns exactly n parts, none of
\* which holds a delimiter: with k the number of parts of the text, the
\* first min(k, n) parts of the text in order, followed by n - k empty
\* strings when k < n, and the parts unaltered when k = n.
C14_SplitTextFitsLeaves ==
    (ppc \in {"written", "returned"} /\ Len(p_texts) >= 1) =>
        LET n == Len(p_texts)
            k == PartCount(p_translated)
        IN  /\ Len(p_split) = n
            /\ \A i \in 1..n : Find(p_split[i], <<"#">>) = -1
            /\ k <= n =>
                  /\ JoinWith(SubSeq(p_split, 1, k), <<"#">>) = p_translated
                  /\ \A i \in (k + 1)..n : p_split[i] = <<>>
            /\ k > n =>
                  StartsWith(p_translated,
                             JoinWith(p_split, <<"#">>) \o <<"#">>)

\* C14 witness: a translation of three parts was split for two leaves, so
\* that split_text cut the third part off.
C14_Witness ==
    /\ ppc = "written"
    /\ Len(p_texts) = 2
    /\ PartCount(p_translated) = 3
    /\ Len(p_split) = 2
    /\ p_log # <<>>

---------------------------------------------------------------------------
(* src/llm_translate.py: split_into_chunks with its default arguments on a
   long paragraph *)

\* The length of the paragraph.
LongTextLen == 12000

\* The text of n characters whose periods are at the 0-based positions in P.
TextWithPeriods(P, n) == [i \in 1..n |-> IF (i - 1) \in P THEN "." ELSE "a"]

\* Where the periods of the paragraph may lie: at the edges of the two
\* search windows and just outside them.
PeriodPlaces ==
    {DefaultMaxLength - DefaultOverlap - 1, DefaultMaxLength - DefaultOverlap,
     DefaultMaxLength + DefaultOverlap - 1, DefaultMaxLength + DefaultOverlap,
     2 * DefaultMaxLength - 2 * DefaultOverlap + 1, 2 * DefaultMaxLength,
     2 * DefaultMaxLength + 2 * DefaultOverlap - 1}

LongTextStart ==
    /\ text \in {TextWithPeriods(P, LongTextLen) : P \in SUBSET PeriodPlaces}
    /\ max_length = DefaultMaxLength
    /\ overlap = DefaultOverlap
    /\ start = 0
    /\ chunks = <<>>
    /\ pc = "loop"

LongTextInit ==
    /\ LongTextStart
    /\ ZipIdle
    /\ XmlIdle
    /\ TextIdle
    /\ CtxIdle
    /\ ChunkIdle
    /\ ParaIdle
    /\ PromptIdle
    /\ DocIdle

SpecLongText == LongTextInit /\ [][SplitNext]_vars

---------------------------------------------------------------------------
(* Claims about the chunks of a long paragraph *)

\* The 0-based offset at which chunk j + 1 begins: the j-th boundary.
RECURSIVE BoundaryAfter(_)
BoundaryAfter(j) ==
    IF j = 0 THEN 0 ELSE BoundaryAfter(j - 1) + Len(chunks[j])

\* The 0-based positions of the window in which the j-th boundary is
\* looked for: `overlap` to either side of the start of chunk j plus
\* max_length.
SearchWindow(j) ==
    LET end == BoundaryAfter(j - 1) + max_length
    IN  {i \in (end - overlap)..(end + overlap - 1) : 0 <= i /\ i < Len(text)}

\* C15: a text of 12,000 characters split with max_length 5000 and overlap
\* 200 yields exactly 3 chunks wherever its periods lie, and each of the
\* two interior boundaries whose search window holds a period falls
\* immediately after a period of that window.
C15_ThreeChunksCutAtPeriods ==
    pc = "done" =>
        /\ Len(chunks) = 3
        /\ \A j \in 1..2 :
              (\E i \in SearchWindow(j) : text[i + 1] = ".") =>
                  /\ (BoundaryAfter(j) - 1) \in SearchWindow(j)
                  /\ text[BoundaryAfter(j)] = "."

\* C15 witness: the split has returned three chunks, the first cut behind
\* a period that lies after offset 5000 and the second behind a period of
\* its window.
C15_Witness ==
    /\ pc = "done"
    /\ Len(text) = LongTextLen
    /\ Len(chunks) = 3
    /\ Len(chunks[1]) = DefaultMaxLength + DefaultOverlap
    /\ text[Len(chunks[1])] = "."
    /\ text[BoundaryAfter(2)] = "."

---------------------------------------------------------------------------
(* src/translator/base_translator.py: _create_prompt and its clauses *)

\* The number of entries of a glossary.
MaxEntries == 3

\* str.replace(":", ": ")
RECURSIVE ReplaceColon(_)
ReplaceColon(t) ==
    IF t = <<>> THEN <<>>
    ELSE (IF Head(t) = ":" THEN <<":", " ">> ELSE <<Head(t)>>)
             \o ReplaceColon(Tail(t))

\* str.split(sep) for a separator of one character
RECURSIVE SplitOn(_, _)
SplitOn(t, sep) ==
    LET i == Find(t, <<sep>>)
    IN  IF i = -1 THEN <<t>>
        ELSE <<Slice(t, 0, i)>> \o SplitOn(SliceFrom(t, i + 1), sep)

\* The sentences of the clauses.
GlossaryHeader ==
    <<"U", "s", "e", " ", "t", "h", "e", " ", "f", "o", "l", "l", "o", "w",
      "i", "n", "g", " ", "g", "l", "o", "s", "s", "a", "r", "y", " ", "t",
      "o", " ", "e", "n", "s", "u", "r", "e", " ", "a", "c", "c", "u", "r",
      "a", "t", "e", " ", "t", "r", "a", "n", "s", "l", "a", "t", "i", "o",
      "n", "s", ":">>
NoGlossarySentence ==
    <<"N", "o", " ", "s", "p", "e", "c", "i", "f", "i", "c", " ", "g", "l",
      "o", "s", "s", "a", "r", "y", " ", "p", "r", "o", "v", "i", "d", "e",
      "d", ".">>
NoDomainSentence ==
    <<"N", "o", " ", "s", "p", "e", "c", "i", "f", "i", "c", " ", "d", "o",
      "m", "a", "i", "n", " ", "r", "e", "q", "u", "i", "r", "e", "m", "e",
      "n", "t", "s", ".">>

\* Mutant of glossary_prompt: the entries are put on their lines as they
\* were written, without the blank behind the colon.
GlossaryPromptKeepsColon(glossary) ==
    LET lines == JoinWith(SplitOn(glossary, ";"), <<"\n">>)
    IN  IF lines # <<>> THEN GlossaryHeader \o <<"\n">> \o lines
        ELSE NoGlossarySentence

\* _get_glossary_prompt, lines 82-89, for a glossary that is a string
glossary_prompt(glossary) ==
    LET lines == JoinWith(SplitOn(ReplaceColon(glossary), ";"), <<"\n">>)
    IN  IF lines # <<>> THEN GlossaryHeader \o <<"\n">> \o lines
        ELSE NoGlossarySentence

\* _get_domain_prompt, lines 74-80
domain_prompt(domain) ==
    LET head ==
            <<"U", "s", "e", " ", "t", "e", "r", "m", "i", "n", "o", "l", "o", "g",
              "y", " ", "s", "p", "e", "c", "i", "f", "i", "c", " ", "t", "o", " ",
              "t", "h", "e", " ">>
        tail ==
            <<" ", "f", "i", "e", "l", "d", ".">>
    IN  IF domain # None /\ domain # <<>>
        THEN head \o domain \o tail
        ELSE NoDomainSentence

\* _get_tone_prompt, lines 62-72
tone_prompt(tone, domain) ==
    LET neutral_objective ==
            <<"U", "s", "e", " ", "a", " ", "n", "e", "u", "t", "r", "a", "l", " ",
              "t", "o", "n", "e", " ", "t", "h", "a", "t", " ", "i", "s", " ", "o",
              "b", "j", "e", "c", "t", "i", "v", "e", ",", " ", "i", "n", "f", "o",
              "r", "m", "a", "t", "i", "v", "e", ",", " ", "a", "n", "d", " ", "u",
              "n", "b", "i", "a", "s", "e", "d", ".">>
        formal ==
            <<"U", "s", "e", " ", "a", " ", "f", "o", "r", "m", "a", "l", " ", "a",
              "n", "d", " ", "p", "r", "o", "f", "e", "s", "s", "i", "o", "n", "a",
              "l", " ", "t", "o", "n", "e", " ", "a", "p", "p", "r", "o", "p", "r",
              "i", "a", "t", "e", " ", "f", "o", "r", " ", "o", "f", "f", "i", "c",
              "i", "a", "l", " ", "d", "o", "c", "u", "m", "e", "n", "t", "s", ".">>
        informal ==
            <<"U", "s", "e", " ", "a", "n", " ", "i", "n", "f", "o", "r", "m", "a",
              "l", " ", "a", "n", "d", " ", "c", "o", "n", "v", "e", "r", "s", "a",
              "t", "i", "o", "n", "a", "l", " ", "t", "o", "n", "e", " ", "t", "h",
              "a", "t", " ", "i", "s", " ", "f", "r", "i", "e", "n", "d", "l", "y",
              " ", "a", "n", "d", " ", "e", "n", "g", "a", "g", "i", "n", "g", ".">>
        technical_head ==
            <<"U", "s", "e", " ", "a", " ", "t", "e", "c", "h", "n", "i", "c", "a",
              "l", " ", "t", "o", "n", "e", " ", "a", "p", "p", "r", "o", "p", "r",
              "i", "a", "t", "e", " ", "f", "o", "r", " ">>
        technical_tail ==
            <<" ", "w", "r", "i", "t", "i", "n", "g", ".">>
        neutral ==
            <<"U", "s", "e", " ", "a", " ", "n", "e", "u", "t", "r", "a", "l", " ",
              "t", "o", "n", "e", ".">>
    IN  IF tone = None THEN neutral_objective
        ELSE IF Lower(tone) = <<"f", "o", "r", "m", "a", "l">> THEN formal
        ELSE IF Lower(tone) = <<"i", "n", "f", "o", "r", "m", "a", "l">>
        THEN informal
        ELSE IF Lower(tone) = <<"t", "e", "c", "h", "n", "i", "c", "a", "l">>
        THEN technical_head
                 \o (IF domain # None /\ domain # <<>> THEN domain
                     ELSE <<"p", "r", "o", "f", "e", "s", "s", "i", "o", "n",
                            "a", "l">>)
                 \o technical_tail
        ELSE neutral

\* The entries a caller writes, and the glossary string made of them:
\* term:definition;term:definition
Terms == {<<"t">>, <<"u", "v">>}
Definitions == {<<"d">>, <<"e", " ", "f">>}
GlossaryEntries ==
    UNION {[1..k -> Terms \X Definitions] : k \in 0..MaxEntries}
GlossaryString(entries) ==
    JoinWith([i \in 1..Len(entries) |->
                 entries[i][1] \o <<":">> \o entries[i][2]], <<";">>)

PromptTones ==
    {None, <<"f", "o", "r", "m", "a", "l">>,
     <<"T", "e", "c", "h", "n", "i", "c", "a", "l">>, <<"o", "d", "d">>}
PromptDomains == {None, <<"l", "a", "w">>}

\* glossary_set tells a glossary that was configured from the default None
PromptStart ==
    /\ g_entries \in GlossaryEntries
    /\ \E tone \in PromptTones, domain \in PromptDomains,
          glossary_set \in BOOLEAN :
          /\ ~glossary_set => g_entries = <<>>
          /\ g_config = [tone |-> tone, domain |-> domain,
                         glossary |-> IF glossary_set
                                      THEN GlossaryString(g_entries)
                                      ELSE None]
    /\ g_prompt = NoPrompt
    /\ gpc = "start"

\* lines 31-60: the clauses are rendered and put into the template
PromptRender ==
    /\ gpc = "start"
    /\ g_config.glossary # None
    /\ g_prompt' = [tone |-> tone_prompt(g_config.tone, g_config.domain),
                    domain |-> domain_prompt(g_config.domain),
                    glossary |-> glossary_prompt(g_config.glossary)]
    /\ gpc' = "rendered"
    /\ UNCHANGED <<g_entries, g_config>>
    /\ UNCHANGED otherThanPrompt

\* line 84: glossary.replace raises AttributeError for the glossary None
PromptRaises ==
    /\ gpc = "start"
    /\ g_config.glossary = None
    /\ gpc' = "raised"
    /\ UNCHANGED <<g_entries, g_config, g_prompt>>
    /\ UNCHANGED otherThanPrompt

PromptInit ==
    /\ PromptStart
    /\ SplitIdle
    /\ ZipIdle
    /\ XmlIdle
    /\ TextIdle
    /\ CtxIdle
    /\ ChunkIdle
    /\ ParaIdle
    /\ DocIdle

PromptNext == PromptRender \/ PromptRaises

SpecPrompt == PromptInit /\ [][PromptNext]_vars

---------------------------------------------------------------------------
(* Claims about the glossary clause *)

\* The lines the claim describes: `term: definition`, one per entry, in
\* the order of the entries.
GlossaryLines ==
    [i \in 1..Len(g_entries) |->
        g_entries[i][1] \o <<":", " ">> \o g_entries[i][2]]

\* The glossary clause lists exactly the lines of the entries, in order.
ListsGlossaryLines ==
    g_prompt.glossary
        = GlossaryHeader \o <<"\n">> \o JoinWith(GlossaryLines, <<"\n">>)

\* C16 (as claimed): for a glossary string of k entries the glossary clause
\* lists exactly k lines `term: definition`, in the order of the entries,
\* and for an empty glossary the clause is left out of the prompt.
C16_GlossaryClauseOrOmitted ==
    gpc = "rendered" =>
        IF g_entries # <<>> THEN ListsGlossaryLines
        ELSE g_prompt.glossary = <<>>

\* C16 (amended): for a glossary string of k >= 1 entries the glossary
\* clause lists exactly k lines `term: definition`, in the order of the
\* entries; for the empty glossary string the clause is not left out but
\* is the sentence "No specific glossary provided.".
C16_GlossaryClauseOrSentence ==
    gpc = "rendered" =>
        IF g_entries # <<>> THEN ListsGlossaryLines
        ELSE g_prompt.glossary = NoGlossarySentence

\* C16 witness: a glossary of three entries was rendered.
C16_Witness ==
    /\ gpc = "rendered"
    /\ Len(g_entries) = 3
    /\ g_entries[1] # g_entries[2]
    /\ Len(SplitOn(g_prompt.glossary, "\n")) = 4

---------------------------------------------------------------------------
(* Claims about the cut of a chunk that is not the last *)

\* The 0-based positions of the periods in the window of the claim: from
\* max(start, end - overlap) up to, not including, end + overlap.
PeriodsInWindow(t, st, end, ov) ==
    {i \in 0..(Len(t) - 1) :
        /\ Max(st, end - ov) <= i
        /\ i < end + ov
        /\ t[i + 1] = "."}

\* The loop takes the else-branch of lines 43-46 in this step.
CutsNonFinalChunk ==
    /\ pc = "loop"
    /\ start < Len(text)
    /\ start + max_length < Len(text)
    /\ chunks' # chunks

\* C17 (as claimed): for a chunk that is not the last the cut is one past
\* the last period of the window when the window holds a period, and
\* end + overlap otherwise.
C17_CutIsReferenceCut ==
    [][CutsNonFinalChunk =>
          LET end     == start + max_length
              periods == PeriodsInWindow(text, start, end, overlap)
          IN  start' = IF periods # {}
                       THEN (CHOOSE i \in periods : \A j \in periods : j <= i) + 1
                       ELSE end + overlap]_vars

\* C17 (amended): for a chunk that is not the last the cut is one past the
\* last period of the window when the window holds a period, and otherwise
\* end + overlap or the length of the text, whichever is less.
C17_CutIsClampedReferenceCut ==
    [][CutsNonFinalChunk =>
          LET end     == start + max_length
              periods == PeriodsInWindow(text, start, end, overlap)
          IN  start' = IF periods # {}
                       THEN (CHOOSE i \in periods : \A j \in periods : j <= i) + 1
                       ELSE Min(end + overlap, Len(text))]_vars

\* C17 witness: the first chunk was cut behind the last of two periods of
\* its window, and text is left for a further chunk.
C17_Witness ==
    /\ pc = "loop"
    /\ Len(chunks) = 1
    /\ max_length < Len(text)
    /\ start = Len(chunks[1])
    /\ start < Len(text)
    /\ Cardinality(PeriodsInWindow(text, 0, max_length, overlap)) >= 2
    /\ text[start] = "."

---------------------------------------------------------------------------
(* Claims about the units of process_xml *)

\* The text of call n is the concatenation of the leaves of one run of
\* equal format, beginning at the anchor of the call, and the leaves of
\* the run lie in the same paragraph.
UnitOfOneFormat(n) ==
    /\ x_calls[n].anchor \in TextLeaves
    /\ x_calls[n].text = JoinLeaves(SegmentFrom(x_calls[n].anchor), 1)
    /\ \A j \in SegmentFrom(x_calls[n].anchor) :
           x_para0[j].inner = x_para0[x_calls[n].anchor].inner

\* A paragraph of two runs of different format, each with a text that the
\* capability has to translate.
TwoRunsOfDifferentFormat ==
    /\ Len(x_para0) = 2
    /\ x_para0[1].fmt # x_para0[2].fmt
    /\ \A i \in 1..2 : ~IsTrivialUnit(x_para0[i].text)

\* C18 (as claimed): every text submitted is the concatenation of leaves
\* of one paragraph that have the same format key, and a paragraph of two
\* runs of different format yields two units, two calls of the capability
\* and two leaves that both hold text afterwards.
C18_UnitsKeepFormat ==
    xpc = "para_done" =>
        /\ \A n \in 1..Len(x_calls) : UnitOfOneFormat(n)
        /\ TwoRunsOfDifferentFormat =>
              /\ Len(x_calls) = 2
              /\ \A n \in 1..2 : x_calls[n].submitted /\ x_calls[n].anchor = n
              /\ \A i \in 1..2 : x_para[i].text # <<>>

---------------------------------------------------------------------------
(* Claims about the context and the order of the calls of process_xml *)

\* C19 (as claimed): the context passed with a unit is the translated
\* output of the unit immediately before it in document order, the last
\* unit of the paragraph before included; the first unit of the part has
\* the empty context.
C19_ContextIsPrecedingOutput ==
    \A n \in 1..Len(x_calls) : x_calls[n].context = x_calls[n].preceding

\* C20 (as claimed): the calls of the capability list the units in
\* document order and each unit is submitted once: no unit is submitted
\* twice or before a unit that precedes it in the document.
C20_EachUnitOnceInOrder ==
    /\ \A m, n \in 1..Len(x_calls) :
          m < n => x_calls[m].anchor < x_calls[n].anchor
    /\ \A i \in 1..Len(x_para) : x_para[i].sent <= 1

---------------------------------------------------------------------------
(* Claims about the start of the rolling context *)

\* current_context + separator + new_translation of the last update
\* (pdf_translator.py lines 138-139).
CombinedContext ==
    c_before
        \o (IF c_before # <<>> /\ c_new # <<>> THEN <<" ">> ELSE <<>>)
        \o c_new

\* The last c_max_length characters of the combined text: what a truncation
\* may retain.
RetainedWindow == SliceFrom(CombinedContext, -c_max_length)

\* The context is the rest of the combined text after a sentence boundary
\* that lies in the retained window.
BeginsAfterBoundary ==
    \E k \in 2..Len(CombinedContext) :
        /\ k - 2 >= Len(CombinedContext) - Len(RetainedWindow)
        /\ \E n \in 1..Len(SentenceEnds) :
               SubSeq(CombinedContext, k - 1, k) = SentenceEnds[n]
        /\ c_context = SubSeq(CombinedContext, k + 1, Len(CombinedContext))

\* C21 (as claimed): when the update has to truncate and the retained
\* window contains a sentence boundary, the returned context begins
\* immediately after such a boundary.
C21_ContextStartsAtSentence ==
    (/\ c_new # NoSpan
     /\ Len(CombinedContext) > c_max_length
     /\ FirstBoundary(RetainedWindow, 1) # -1)
        => BeginsAfterBoundary

---------------------------------------------------------------------------
(* Claims about the detection of the source language *)

\* The configuration the caller holds asks for the detection of the
\* language: source_language is unset or "auto".
SettingAsksDetection ==
    t_config.source_language \in {None, <<"a", "u", "t", "o">>}

\* The call of translate_text was made with the source language unset or
\* "auto".
CallAsksDetection ==
    t_call.source_language \in {None, <<"a", "u", "t", "o">>}

\* C22 (as claimed): with the source language unset or "auto", the
\* detection is invoked for every unit submitted to the capability, on the
\* text of that unit, and the setting is still unset or "auto" after every
\* call of translate_text, so that no later unit takes the language
\* detected for an earlier one.
C22_DetectionForEveryUnit ==
    [][/\ (t_call'.submitted /\ CallAsksDetection')
              => (t_call'.detected /\ t_call'.detect_arg = t_call'.unit)
       /\ SettingAsksDetection => SettingAsksDetection']_vars

---------------------------------------------------------------------------
(* Claims about the delimiter of the leaf texts *)

\* C23 (as claimed): when the joined leaf texts of a paragraph come back
\* unchanged, split_text returns exactly the leaf texts of the paragraph,
\* and the leaves hold their texts again.
C23_JoinSplitRoundTrip ==
    (ppc = "written" /\ p_translated = paragraph_text(p_texts)) =>
        /\ p_split = p_texts
        /\ p_written = p_texts

---------------------------------------------------------------------------
(* Claims about the post-processing of the completion *)

\* The wrapper markers of the implementation that made the latest call.
OpenMarker ==
    IF t_call.impl = "process_response" THEN BaseOpenTag ELSE XmlOpenTag
CloseMarker ==
    IF t_call.impl = "process_response" THEN BaseCloseTag ELSE XmlCloseTag

\* The completion without the whitespace around it (and with the sharp s
\* written as ss).
StrippedResponse == ReplaceEszett(Strip(t_call.response))

\* The text of the completion with nothing removed but the markers: from
\* the end of the opening marker, or from the first character when there is
\* none, to the closing marker, or to the last character when there is none.
TextWithoutMarkers ==
    LET s    == StrippedResponse
        from == IF Find(s, OpenMarker) # -1
                THEN Find(s, OpenMarker) + Len(OpenMarker) ELSE 0
        to   == IF Find(s, CloseMarker) # -1
                THEN Find(s, CloseMarker) ELSE Len(s)
    IN  SubSeq(s, from + 1, to)

\* C24 (as claimed): the post-processing removes only the markers and the
\* whitespace around the completion: with both markers the result is the
\* text between them, and without the opening or the closing marker no
\* character is dropped on that side (a carriage return that ended the
\* unit is put back at the end).
C24_OnlyMarkersRemoved ==
    ((t_call.submitted \/ t_call.impl = "process_response")
         /\ ~t_call.raised) =>
        t_call.result =
            TextWithoutMarkers
                \o (IF EndsWith(t_call.unit, <<"\r">>) THEN <<"\r">> ELSE <<>>)

---------------------------------------------------------------------------
(* src/llm_translate.py: translate_document, with translate_paragraphs,
   chunk_and_translate and translate_chunks: one call of translate_chunk
   per step *)

\* The number of paragraphs of a document.
MaxDocParagraphs == 2

\* The paragraphs of a document, as the t.text of their w:t elements (None
\* read as ''): a paragraph without w:t, with one or two empty w:t, with a
\* sentence in one w:t, and with two w:t that hold text.
DocParagraphs ==
    {<<>>,
     <<(<<>>)>>,
     <<(<<>>), (<<>>)>>,
     <<(<<"a", ".">>)>>,
     <<(<<"a", ".">>), (<<"b">>)>>}

Documents == UNION {[1..n -> DocParagraphs] : n \in 0..MaxDocParagraphs}

\* The completions of the capability for a chunk: None stands for a call
\* that raised openai.OpenAIError (lines 105-107); the introductory phrase
\* alone leaves the empty text.
DocCompletions == {None, Intro, Intro \o <<" ", "Y", "#", "z">>}

\* One call of translate_chunk: the paragraph (from 1), the chunk (from 0)
\* and whether it came back with a result.
DocCall(para, i, translated_chunk) ==
    [para |-> para, chunk |-> i, ok |-> Truthy(translated_chunk)]

\* Lines 161-162: for t, new_text in zip(texts, split_texts): t.text = new_text
WriteBack(texts, split_texts) ==
    [i \in 1..Len(texts) |->
        IF i <= Len(split_texts) THEN split_texts[i] ELSE texts[i]]

\* translate_document line 174 calls translate_paragraphs, which parses
\* the markup and lists the paragraphs (lines 144-148)
DocStart ==
    /\ d_doc \in Documents
    /\ d_tree = d_doc
    /\ d_max_length \in 1..MaxMaxLength
    /\ d_overlap \in 0..MaxOverlap
    /\ d_para = 1
    /\ d_chunks = <<>>
    /\ d_translated = <<>>
    /\ d_calls = <<>>
    /\ d_returned = NothingReturned
    /\ d_output = FALSE
    /\ dpc = "paragraph"

\* translate_paragraphs, lines 150-156, and chunk_and_translate, line 132:
\* the texts of the next paragraph are joined and the text is split
DocParagraphSplit ==
    /\ dpc = "paragraph"
    /\ d_para <= Len(d_doc)
    /\ d_chunks' = split_into_chunks(paragraph_text(d_tree[d_para]),
                                     d_max_length, d_overlap)
    /\ d_translated' = <<>>
    /\ dpc' = "chunks"
    /\ UNCHANGED <<d_doc, d_tree, d_max_length, d_overlap, d_para, d_calls,
                   d_returned, d_output>>
    /\ UNCHANGED otherThanDoc

\* translate_chunks, lines 114-123: the chunk has a translation
DocChunkTranslated ==
    /\ dpc = "chunks"
    /\ Len(d_translated) < Len(d_chunks)
    /\ LET i       == Len(d_translated)
           chunk   == d_chunks[i + 1]
           context == ChunkContext(d_translated, i, d_overlap)
       IN  /\ ~context.raised
           /\ \E content \in DocCompletions :
                 LET translated_chunk == translate_chunk(content)
                     out == ChunkOutcome(d_translated, chunk, translated_chunk)
                 IN  /\ ~out.returned
                     /\ d_translated' = out.translated_chunks
                     /\ d_calls' = Append(d_calls,
                                          DocCall(d_para, i, translated_chunk))
    /\ UNCHANGED <<d_doc, d_tree, d_max_length, d_overlap, d_para, d_chunks,
                   d_returned, d_output, dpc>>
    /\ UNCHANGED otherThanDoc

\* Mutant of DocChunkFailed: the failure of the chunk is logged and the
\* loop over the paragraphs goes on with the next paragraph.
DocChunkFailedGoesOn ==
    /\ dpc = "chunks"
    /\ Len(d_translated) < Len(d_chunks)
    /\ LET i       == Len(d_translated)
           chunk   == d_chunks[i + 1]
           context == ChunkContext(d_translated, i, d_overlap)
       IN  /\ ~context.raised
           /\ \E content \in DocCompletions :
                 LET translated_chunk == translate_chunk(content)
                     out == ChunkOutcome(d_translated, chunk, translated_chunk)
                 IN  /\ out.returned
                     /\ d_calls' = Append(d_calls,
                                          DocCall(d_para, i, translated_chunk))
    /\ d_returned' = [NothingReturned EXCEPT !.translate_chunks = "None",
                                             !.chunk_and_translate = "None"]
    /\ d_para' = d_para + 1
    /\ d_chunks' = <<>>
    /\ d_translated' = <<>>
    /\ dpc' = "paragraph"
    /\ UNCHANGED <<d_doc, d_tree, d_max_length, d_overlap, d_output>>
    /\ UNCHANGED otherThanDoc

\* translate_chunks, lines 120-126: the chunk has no translation and the
\* function returns None; chunk_and_translate, lines 134-139, returns
\* None; translate_paragraphs, lines 158-165, returns None;
\* translate_document, lines 176-178, returns before the package is written
DocChunkFailed ==
    /\ dpc = "chunks"
    /\ Len(d_translated) < Len(d_chunks)
    /\ LET i       == Len(d_translated)
           chunk   == d_chunks[i + 1]
           context == ChunkContext(d_translated, i, d_overlap)
       IN  /\ ~context.raised
           /\ \E content \in DocCompletions :
                 LET translated_chunk == translate_chunk(content)
                     out == ChunkOutcome(d_translated, chunk, translated_chunk)
                 IN  /\ out.returned
                     /\ d_calls' = Append(d_calls,
                                          DocCall(d_para, i, translated_chunk))
    /\ d_returned' = [translate_chunks |-> "None",
                      chunk_and_translate |-> "None",
                      translate_paragraphs |-> "None"]
    /\ dpc' = "failed"
    /\ UNCHANGED <<d_doc, d_tree, d_max_length, d_overlap, d_para, d_chunks,
                   d_translated, d_output>>
    /\ UNCHANGED otherThanDoc

\* translate_chunks, line 117: find_context_start raises IndexError, which
\* no function up to translate_document catches
DocContextRaises ==
    /\ dpc = "chunks"
    /\ Len(d_translated) < Len(d_chunks)
    /\ ChunkContext(d_translated, Len(d_translated), d_overlap).raised
    /\ dpc' = "raised"
    /\ UNCHANGED <<d_doc, d_tree, d_max_length, d_overlap, d_para, d_chunks,
                   d_translated, d_calls, d_returned, d_output>>
    /\ UNCHANGED otherThanDoc

\* translate_chunks, line 119: translate_chunk raises an exception that is
\* no OpenAIError, which no function up to translate_document catches;
\* d_calls keeps the calls that returned
DocChunkRaises ==
    /\ dpc = "chunks"
    /\ Len(d_translated) < Len(d_chunks)
    /\ ~ChunkContext(d_translated, Len(d_translated), d_overlap).raised
    /\ dpc' = "raised"
    /\ UNCHANGED <<d_doc, d_tree, d_max_length, d_overlap, d_para, d_chunks,
                   d_translated, d_calls, d_returned, d_output>>
    /\ UNCHANGED otherThanDoc

\* translate_chunks, line 127, returns the translated chunks,
\* chunk_and_translate, lines 134-137, combines them, translate_paragraphs,
\* lines 158-162, splits the translation and writes the parts to the w:t
DocParagraphWritten ==
    /\ dpc = "chunks"
    /\ Len(d_translated) = Len(d_chunks)
    /\ d_translated # <<>>
    /\ ~combine_translations(d_translated).raised
    /\ LET texts           == d_tree[d_para]
           translated_text == combine_translations(d_translated).final_translation
           split_texts     == split_text(translated_text, Len(texts))
       IN  d_tree' = [d_tree EXCEPT ![d_para] = WriteBack(texts, split_texts)]
    /\ d_para' = d_para + 1
    /\ d_chunks' = <<>>
    /\ d_translated' = <<>>
    /\ dpc' = "paragraph"
    /\ UNCHANGED <<d_doc, d_max_length, d_overlap, d_calls, d_returned,
                   d_output>>
    /\ UNCHANGED otherThanDoc

\* translate_chunks, line 127, returns the empty list (the paragraph text
\* is empty and has no chunk): chunk_and_translate, lines 134 and 138-139,
\* returns None, translate_paragraphs, lines 163-165, returns None and
\* translate_document, lines 176-178, returns before the package is written
DocParagraphNothingTranslated ==
    /\ dpc = "chunks"
    /\ Len(d_translated) = Len(d_chunks)
    /\ d_translated = <<>>
    /\ d_returned' = [translate_chunks |-> "empty list",
                      chunk_and_translate |-> "None",
                      translate_paragraphs |-> "None"]
    /\ dpc' = "failed"
    /\ UNCHANGED <<d_doc, d_tree, d_max_length, d_overlap, d_para, d_chunks,
                   d_translated, d_calls, d_output>>
    /\ UNCHANGED otherThanDoc

\* translate_paragraphs, line 167, returns the markup of the tree and
\* translate_document, lines 181-188, writes the output package
DocWrite ==
    /\ dpc = "paragraph"
    /\ d_para > Len(d_doc)
    /\ d_returned' = [d_returned EXCEPT !.translate_paragraphs = "markup"]
    /\ d_output' = TRUE
    /\ dpc' = "written"
    /\ UNCHANGED <<d_doc, d_tree, d_max_length, d_overlap, d_para, d_chunks,
                   d_translated, d_calls>>
    /\ UNCHANGED otherThanDoc

DocInit ==
    /\ DocStart
    /\ SplitIdle
    /\ ZipIdle
    /\ XmlIdle
    /\ TextIdle
    /\ CtxIdle
    /\ ChunkIdle
    /\ ParaIdle
    /\ PromptIdle

DocNext ==
    \/ DocParagraphSplit
    \/ DocChunkTranslated
    \/ DocChunkFailed
    \/ DocContextRaises
    \/ DocChunkRaises
    \/ DocParagraphWritten
    \/ DocParagraphNothingTranslated
    \/ DocWrite

SpecDoc == DocInit /\ [][DocNext]_vars

---------------------------------------------------------------------------
(* Claims about a chunk without a result in a document *)

\* The calls of translate_chunk for the document that came back with no
\* result.
FailedDocCalls == {n \in 1..Len(d_calls) : ~d_calls[n].ok}

\* C25: once the capability returns no result for a chunk, no further call
\* of the capability is made for the document, translate_chunks,
\* chunk_and_translate and translate_paragraphs return None, and
\* translate_document writes no output package.
C25_FailureStopsDocument ==
    FailedDocCalls # {} =>
        /\ FailedDocCalls = {Len(d_calls)}
        /\ dpc = "failed"
        /\ d_returned.translate_chunks = "None"
        /\ d_returned.chunk_and_translate = "None"
        /\ d_returned.translate_paragraphs = "None"
        /\ ~d_output

\* C25 witness: the second paragraph of a document lost a chunk after the
\* first paragraph was translated and written back, and translate_document
\* has returned.
C25_Witness ==
    /\ dpc = "failed"
    /\ FailedDocCalls # {}
    /\ d_para = 2
    /\ Len(d_calls) >= 2
    /\ d_tree[1] # d_doc[1]
    /\ Len(d_chunks) > Len(d_translated) + 1

---------------------------------------------------------------------------
(* Claims about a paragraph without text *)

\* The paragraph has no w:t, or only empty ones.
HasNoText(texts) == \A i \in 1..Len(texts) : texts[i] = <<>>

\* C28 (as claimed): a paragraph with no text does not make the
\* translation of the document fail: no call of the capability is made
\* for it, it is left as it is, and translate_paragraphs does not return
\* None at it.
C28_EmptyParagraphSkipped ==
    \A j \in 1..Len(d_doc) :
        HasNoText(d_doc[j]) =>
            /\ \A n \in 1..Len(d_calls) : d_calls[n].para # j
            /\ d_tree[j] = d_doc[j]
            /\ ~(dpc = "failed" /\ d_para = j)

---------------------------------------------------------------------------
(* Claims about the length of the chunks *)

\* The chunks that are followed by another chunk.
NonFinalChunks == 1..(Len(chunks) - 1)

\* C26 (as claimed): for max_length >= 1 and overlap >= 0 every chunk has
\* at most max_length + overlap characters and every non-final chunk has
\* at least max(1, max_length - overlap + 1).
C26_ChunkLengthBounds ==
    max_length >= 1 =>
        /\ \A j \in 1..Len(chunks) : Len(chunks[j]) <= max_length + overlap
        /\ \A j \in NonFinalChunks :
               Len(chunks[j]) >= Max(1, max_length - overlap + 1)

\* C26 (amended): for max_length >= 1 and overlap >= 0 every chunk has at
\* most max_length + overlap characters and every non-final chunk has at
\* least max(1, max_length - overlap + 1) characters when overlap >= 1 and
\* exactly max_length characters when overlap = 0.
C26_ChunkLengthBoundsByOverlap ==
    max_length >= 1 =>
        /\ \A j \in 1..Len(chunks) : Len(chunks[j]) <= max_length + overlap
        /\ \A j \in NonFinalChunks :
               IF overlap >= 1
               THEN Len(chunks[j]) >= Max(1, max_length - overlap + 1)
               ELSE Len(chunks[j]) = max_length

\* C26 witness: a split without overlap has returned three chunks or more,
\* each non-final one of exactly max_length >= 2 characters.
C26_Witness ==
    /\ pc = "done"
    /\ max_length >= 2
    /\ overlap = 0
    /\ Len(chunks) >= 3
    /\ \A j \in NonFinalChunks : Len(chunks[j]) = max_length

---------------------------------------------------------------------------
(* Claims about the text process_xml keeps *)

\* The texts process_xml passed to translate_text for the paragraph, in
\* the order of the calls, as one text.
RECURSIVE SubmittedText(_)
SubmittedText(n) ==
    IF n > Len(x_calls) THEN <<>>
    ELSE x_calls[n].text \o SubmittedText(n + 1)

\* Leaf i is part of a unit that was passed to translate_text and whose
\* result was written to the anchor of the unit.
InWrittenUnit(i) ==
    \E n \in 1..Len(x_calls) :
        /\ x_calls[n].anchor \in TextLeaves
        /\ i \in SegmentFrom(x_calls[n].anchor)
        /\ x_calls[n].text = JoinLeaves(SegmentFrom(x_calls[n].anchor), 1)
        /\ x_para[x_calls[n].anchor].text = x_calls[n].result

\* C27 (as claimed): process_xml loses no text: the texts passed on for
\* translation are, in order, the texts of all leaves of the paragraph
\* that are not whitespace-only, and a leaf is cleared only if its text is
\* part of a unit that is translated and written back to its anchor.
C27_NoTextLost ==
    xpc = "para_done" =>
        /\ SubmittedText(1) = JoinLeaves(TextLeaves, 1)
        /\ \A i \in TextLeaves : x_para[i].text = <<>> => InWrittenUnit(i)

---------------------------------------------------------------------------
(* Claims about the prompt of a configuration with unset fields *)

\* C29 (as claimed): _create_prompt renders a prompt for every
\* configuration without raising, and a glossary that is not set (None)
\* is rendered as the empty glossary is.
C29_UnsetGlossaryRendered ==
    /\ gpc # "raised"
    /\ (gpc = "rendered" /\ g_config.glossary = None)
           => g_prompt.glossary = glossary_prompt(<<>>)

---------------------------------------------------------------------------
(* Claims about the context of a chunk *)

\* C30 (as claimed): for the previous translated chunk t and every
\* overlap >= 0, find_context_start(t, len(t), overlap) reads no index
\* outside t and returns a start between len(t) - overlap and len(t): the
\* context passed with the next chunk is a suffix of the previous
\* translated chunk of at most overlap characters.
C30_ContextIsShortSuffix ==
    /\ kpc # "raised"
    /\ \A n \in 2..Len(k_calls) :
           /\ k_calls[n].context_given
           /\ EndsWith(k_calls[n - 1].result, k_calls[n].context)
           /\ Len(k_calls[n].context) <= k_overlap

=============================================================================
